---- MODULE Spec2Model ----
(***************************************************************************)
(* Model of proton::matching::Query (query.cpp): the planning pipeline     *)
(* buildTree -> reserveHandles -> optimize -> fetchPostings -> freeze ->   *)
(* createSearch, with the location injector and the white-list merge.      *)
(***************************************************************************)
EXTENDS Integers, Sequences, FiniteSets, TLC

(* ------------------------------ bounds --------------------------------- *)
\* depth of the expression trees offered to buildTree
MaxDepth == 2
\* number of API calls made on one Query
MaxCalls == 4
\* calls made on one Query when the whole pipeline is followed, and the
\* match-data buffers (one per searching thread) handed to createSearch
MaxPipelineCalls == 5
MaxBuffers == 2
MaxBuilds == 2
\* instants the node repository's clock runs through
MaxTime == 6
\* invocations counted per maintainer
MaxInvocations == 3
\* sessions of the tenant
MaxSessions == 2

(* ------------------------- query tree nodes ---------------------------- *)
\* search::query::Node: a term leaf or an intermediate with ordered children.
\* view: field/view name (sequence of name parts); loc, weight: term payload;
\* resolved, unpack, handle: what view resolution, the unpacking optimizer and
\* match-data reservation leave on a term.
Node(type, id, children, view, loc, weight) ==
    [t |-> type, id |-> id, ch |-> children, view |-> view, loc |-> loc,
     weight |-> weight, resolved |-> FALSE, unpack |-> "none", handle |-> 0]

NullNode == Node("Null", 0, <<>>, <<>>, <<>>, 0)

Term(id, view) == Node("Term", id, <<>>, view, <<>>, 0)

Intermediate(type, children) == Node(type, 0, children, <<>>, <<>>, 0)

ProtonAnd(children) == Intermediate("And", children)

ProtonLocationTerm(loc, view, id, weight) ==
    Node("Location", id, <<>>, view, loc, weight)

IsLeaf(n) == n.t \in {"Term", "Location"}

\* Intermediate::append / prepend / stealFirst
append(node, child) == [node EXCEPT !.ch = Append(node.ch, child)]
prepend(node, child) == [node EXCEPT !.ch = <<child>> \o node.ch]
stealFirst(node) == [first |-> Head(node.ch),
                     rest |-> [node EXCEPT !.ch = Tail(node.ch)]]

(* ------------------------------ inject --------------------------------- *)
RECURSIVE inject(_, _)
InjectAppendsInRank(query, to_inject) ==
    IF query.t = "And" THEN append(query, to_inject)
    ELSE IF query.t \in {"Rank", "AndNot"}
         THEN LET s == stealFirst(query)
              IN  append(s.rest, inject(s.first, to_inject))
         ELSE ProtonAnd(<<query, to_inject>>)

InjectWrapsAnd(query, to_inject) ==
    IF query.t \in {"Rank", "AndNot"}
    THEN LET s == stealFirst(query)
         IN  prepend(s.rest, inject(s.first, to_inject))
    ELSE ProtonAnd(<<query, to_inject>>)

InjectSwapsOrder(query, to_inject) ==
    IF query.t = "And" THEN append(query, to_inject)
    ELSE IF query.t \in {"Rank", "AndNot"}
         THEN LET s == stealFirst(query)
              IN  prepend(s.rest, inject(s.first, to_inject))
         ELSE ProtonAnd(<<to_inject, query>>)

inject(query, to_inject) ==
    IF query.t = "And" THEN append(query, to_inject)
    ELSE IF query.t \in {"Rank", "AndNot"}
         THEN LET s == stealFirst(query)
              IN  prepend(s.rest, inject(s.first, to_inject))
         ELSE ProtonAnd(<<query, to_inject>>)

(* ---------------------- expression stack and parser -------------------- *)
\* One item of the serialized stack (prefix order): type, arity, term payload.
Item(n) == [t |-> n.t, arity |-> Len(n.ch), id |-> n.id, view |-> n.view]

RECURSIVE Serialize(_)
RECURSIVE SerializeAll(_)
Serialize(n) == <<Item(n)>> \o SerializeAll(n.ch)
SerializeAll(chs) ==
    IF chs = <<>> THEN <<>> ELSE Serialize(Head(chs)) \o SerializeAll(Tail(chs))

\* QueryTreeCreator::create over the stack-dump iterator: rebuilds the tree in
\* prefix order; a stack that ends early, is empty or has items left over
\* yields no tree.
RECURSIVE ParseAt(_, _)
RECURSIVE ParseChildren(_, _, _)
ParseAt(stack, i) ==
    IF i > Len(stack) THEN [ok |-> FALSE, node |-> NullNode, next |-> i]
    ELSE LET it == stack[i]
             cs == ParseChildren(stack, i + 1, it.arity)
         IN  IF ~cs.ok THEN [ok |-> FALSE, node |-> NullNode, next |-> i]
             ELSE [ok |-> TRUE,
                   node |-> Node(it.t, it.id, cs.nodes, it.view, <<>>, 0),
                   next |-> cs.next]
ParseChildren(stack, i, n) ==
    IF n = 0 THEN [ok |-> TRUE, nodes |-> <<>>, next |-> i]
    ELSE LET c == ParseAt(stack, i)
         IN  IF ~c.ok THEN [ok |-> FALSE, nodes |-> <<>>, next |-> i]
             ELSE LET r == ParseChildren(stack, c.next, n - 1)
                  IN  [ok |-> r.ok, nodes |-> <<c.node>> \o r.nodes, next |-> r.next]

CreateTree(stack) ==
    LET r == ParseAt(stack, 1)
    IN  IF r.ok /\ r.next = Len(stack) + 1 THEN r.node ELSE NullNode

(* --------------------------- input universe ---------------------------- *)
FieldF == <<"f">>
\* the expressions: a spine of first children ending in term 1, every
\* intermediate at level d adding its own terms 10d+1 and 10d+2 as siblings
\* (every intermediate has a first child; term ids are unique in a tree);
\* above level 2 only Rank and AndNot are put on top, the nodes whose first
\* children inject and the white-list merge follow
SpineLeaf == Term(1, FieldF)
Sib(d, k) == Term(10 * d + k, FieldF)

RECURSIVE Trees(_)
Trees(d) ==
    IF d = 0 THEN {SpineLeaf}
    ELSE LET sub == Trees(d - 1)
         IN  {SpineLeaf}
             \cup (IF d > 2 THEN {}
                   ELSE {Intermediate("And", <<s, Sib(d, 1)>>) : s \in sub}
                        \cup {Intermediate("Or", <<s, Sib(d, 2)>>) : s \in sub})
             \cup {Intermediate("Rank", <<s, Sib(d, 1)>>) : s \in sub}
             \cup {Intermediate("AndNot", <<s, Sib(d, 1), Sib(d, 2)>>) : s \in sub}

\* malformed streams: empty, and an intermediate whose children are missing
MalformedStacks ==
    {<<>>,
     <<Item(Intermediate("And", <<SpineLeaf, Sib(1, 1)>>)), Item(SpineLeaf)>>,
     <<Item(SpineLeaf), Item(Sib(1, 1))>>}

\* well-formed streams whose term ids are not what the others promise: a term
\* that carries the id the location term is created with, and one id used twice
OddIdTrees ==
    {Intermediate("And", <<Term(0 - 1, FieldF), Sib(1, 1)>>),
     Intermediate("Or", <<SpineLeaf, SpineLeaf>>)}

Stacks == {Serialize(tr) : tr \in Trees(MaxDepth) \cup OddIdTrees} \cup MalformedStacks

(* ----------------------------- location -------------------------------- *)
\* strings are sequences of characters (tokens); string::find, 0 is npos
find(str, c) ==
    IF \E i \in 1..Len(str) : str[i] = c
    THEN CHOOSE i \in 1..Len(str) : str[i] = c /\ \A j \in 1..(i - 1) : str[j] # c
    ELSE 0

\* PositionDataType::getZCurveFieldName
getZCurveFieldName(name) == name \o <<"_zcurve">>

\* search::common::Location::parse: <flag> <x> <y>; flag R ranks on distance,
\* P prunes on distance, B does both, N neither.
Digits == {"100", "10", "1"}
ToInt(d) == CASE d = "100" -> 100 [] d = "10" -> 10 [] OTHER -> 1
LocationFlags == {"R", "P", "B", "N"}
ParseLocation(loc) ==
    IF Len(loc) = 3 /\ loc[1] \in LocationFlags /\ loc[2] \in Digits /\ loc[3] \in Digits
    THEN [ok |-> TRUE, rankOnDistance |-> loc[1] \in {"R", "B"},
          pruneOnDistance |-> loc[1] \in {"P", "B"},
          x |-> ToInt(loc[2]), y |-> ToInt(loc[3]), xAspect |-> 0]
    ELSE [ok |-> FALSE, rankOnDistance |-> FALSE, pruneOnDistance |-> FALSE,
          x |-> 0, y |-> 0, xAspect |-> 0]

\* search::fef::Location as default constructed
NoLocation == [attribute |-> <<>>, x |-> 0, y |-> 0, xAspect |-> 0, valid |-> FALSE]

LocationId == 0 - 1
LocationWeight == 100

\* as addLocationNode, but a string without ':' is taken whole as the spec
AddLocationWithoutColon(location_str, query_tree, fef_location) ==
    LET unchanged == [tree |-> query_tree, location |-> fef_location]
        pos == find(location_str, ":")
    IN  IF location_str = <<>> THEN unchanged
        ELSE LET view == getZCurveFieldName(SubSeq(location_str, 1, pos - 1))
                 loc == SubSeq(location_str, pos + 1, Len(location_str))
                 locationSpec == ParseLocation(loc)
                 term == ProtonLocationTerm(loc, view, LocationId, LocationWeight)
             IN  IF ~locationSpec.ok THEN unchanged
                 ELSE IF locationSpec.rankOnDistance
                      THEN [tree |-> inject(query_tree, term),
                            location |-> [attribute |-> view,
                                          x |-> locationSpec.x,
                                          y |-> locationSpec.y,
                                          xAspect |-> locationSpec.xAspect,
                                          valid |-> TRUE]]
                      ELSE IF locationSpec.pruneOnDistance
                           THEN [tree |-> inject(query_tree, term),
                                 location |-> fef_location]
                           ELSE unchanged

\* as addLocationNode, but x and y change places in the descriptor
AddLocationSwapsXY(location_str, query_tree, fef_location) ==
    LET unchanged == [tree |-> query_tree, location |-> fef_location]
        pos == find(location_str, ":")
    IN  IF location_str = <<>> THEN unchanged
        ELSE IF pos = 0 THEN unchanged
        ELSE LET view == getZCurveFieldName(SubSeq(location_str, 1, pos - 1))
                 loc == SubSeq(location_str, pos + 1, Len(location_str))
                 locationSpec == ParseLocation(loc)
                 term == ProtonLocationTerm(loc, view, LocationId, LocationWeight)
             IN  IF ~locationSpec.ok THEN unchanged
                 ELSE IF locationSpec.rankOnDistance
                      THEN [tree |-> inject(query_tree, term),
                            location |-> [attribute |-> view,
                                          x |-> locationSpec.y,
                                          y |-> locationSpec.x,
                                          xAspect |-> locationSpec.xAspect,
                                          valid |-> TRUE]]
                      ELSE IF locationSpec.pruneOnDistance
                           THEN [tree |-> inject(query_tree, term),
                                 location |-> fef_location]
                           ELSE unchanged

\* as addLocationNode, but pruning alone fills the descriptor too
AddLocationPopulatesOnPrune(location_str, query_tree, fef_location) ==
    LET unchanged == [tree |-> query_tree, location |-> fef_location]
        pos == find(location_str, ":")
    IN  IF location_str = <<>> THEN unchanged
        ELSE IF pos = 0 THEN unchanged
        ELSE LET view == getZCurveFieldName(SubSeq(location_str, 1, pos - 1))
                 loc == SubSeq(location_str, pos + 1, Len(location_str))
                 locationSpec == ParseLocation(loc)
                 term == ProtonLocationTerm(loc, view, LocationId, LocationWeight)
             IN  IF ~locationSpec.ok THEN unchanged
                 ELSE IF locationSpec.rankOnDistance
                      THEN [tree |-> inject(query_tree, term),
                            location |-> [attribute |-> view,
                                          x |-> locationSpec.x,
                                          y |-> locationSpec.y,
                                          xAspect |-> locationSpec.xAspect,
                                          valid |-> TRUE]]
                      ELSE IF locationSpec.pruneOnDistance
                           THEN [tree |-> inject(query_tree, term),
                                 location |-> [attribute |-> view,
                                               x |-> locationSpec.x,
                                               y |-> locationSpec.y,
                                               xAspect |-> locationSpec.xAspect,
                                               valid |-> TRUE]]
                           ELSE unchanged

\* as addLocationNode, but pruning alone injects nothing
AddLocationPrunesWithoutTerm(location_str, query_tree, fef_location) ==
    LET unchanged == [tree |-> query_tree, location |-> fef_location]
        pos == find(location_str, ":")
    IN  IF location_str = <<>> THEN unchanged
        ELSE IF pos = 0 THEN unchanged
        ELSE LET view == getZCurveFieldName(SubSeq(location_str, 1, pos - 1))
                 loc == SubSeq(location_str, pos + 1, Len(location_str))
                 locationSpec == ParseLocation(loc)
                 term == ProtonLocationTerm(loc, view, LocationId, LocationWeight)
             IN  IF ~locationSpec.ok THEN unchanged
                 ELSE IF locationSpec.rankOnDistance
                      THEN [tree |-> inject(query_tree, term),
                            location |-> [attribute |-> view,
                                          x |-> locationSpec.x,
                                          y |-> locationSpec.y,
                                          xAspect |-> locationSpec.xAspect,
                                          valid |-> TRUE]]
                      ELSE IF locationSpec.pruneOnDistance
                           THEN [tree |-> query_tree,
                                 location |-> fef_location]
                           ELSE unchanged

\* as addLocationNode, but the location term is created with id 1
AddLocationWithIdOne(location_str, query_tree, fef_location) ==
    LET unchanged == [tree |-> query_tree, location |-> fef_location]
        pos == find(location_str, ":")
    IN  IF location_str = <<>> THEN unchanged
        ELSE IF pos = 0 THEN unchanged
        ELSE LET view == getZCurveFieldName(SubSeq(location_str, 1, pos - 1))
                 loc == SubSeq(location_str, pos + 1, Len(location_str))
                 locationSpec == ParseLocation(loc)
                 term == ProtonLocationTerm(loc, view, 1, LocationWeight)
             IN  IF ~locationSpec.ok THEN unchanged
                 ELSE IF locationSpec.rankOnDistance
                      THEN [tree |-> inject(query_tree, term),
                            location |-> [attribute |-> view,
                                          x |-> locationSpec.x,
                                          y |-> locationSpec.y,
                                          xAspect |-> locationSpec.xAspect,
                                          valid |-> TRUE]]
                      ELSE IF locationSpec.pruneOnDistance
                           THEN [tree |-> inject(query_tree, term),
                                 location |-> fef_location]
                           ELSE unchanged

\* as addLocationNode, but a call that does not rank on distance leaves the
\* descriptor absent
AddLocationResets(location_str, query_tree, fef_location) ==
    LET unchanged == [tree |-> query_tree, location |-> NoLocation]
        pos == find(location_str, ":")
    IN  IF location_str = <<>> THEN unchanged
        ELSE IF pos = 0 THEN unchanged
        ELSE LET view == getZCurveFieldName(SubSeq(location_str, 1, pos - 1))
                 loc == SubSeq(location_str, pos + 1, Len(location_str))
                 locationSpec == ParseLocation(loc)
                 term == ProtonLocationTerm(loc, view, LocationId, LocationWeight)
             IN  IF ~locationSpec.ok THEN unchanged
                 ELSE IF locationSpec.rankOnDistance
                      THEN [tree |-> inject(query_tree, term),
                            location |-> [attribute |-> view,
                                          x |-> locationSpec.x,
                                          y |-> locationSpec.y,
                                          xAspect |-> locationSpec.xAspect,
                                          valid |-> TRUE]]
                      ELSE IF locationSpec.pruneOnDistance
                           THEN [tree |-> inject(query_tree, term),
                                 location |-> NoLocation]
                           ELSE unchanged

\* as addLocationNode, but prune-on-distance is looked at before
\* rank-on-distance
AddLocationPrunesFirst(location_str, query_tree, fef_location) ==
    LET unchanged == [tree |-> query_tree, location |-> fef_location]
        pos == find(location_str, ":")
    IN  IF location_str = <<>> THEN unchanged
        ELSE IF pos = 0 THEN unchanged
        ELSE LET view == getZCurveFieldName(SubSeq(location_str, 1, pos - 1))
                 loc == SubSeq(location_str, pos + 1, Len(location_str))
                 locationSpec == ParseLocation(loc)
                 term == ProtonLocationTerm(loc, view, LocationId, LocationWeight)
             IN  IF ~locationSpec.ok THEN unchanged
                 ELSE IF locationSpec.pruneOnDistance
                      THEN [tree |-> inject(query_tree, term),
                            location |-> fef_location]
                      ELSE IF locationSpec.rankOnDistance
                           THEN [tree |-> inject(query_tree, term),
                                 location |-> [attribute |-> view,
                                               x |-> locationSpec.x,
                                               y |-> locationSpec.y,
                                               xAspect |-> locationSpec.xAspect,
                                               valid |-> TRUE]]
                           ELSE unchanged

\* addLocationNode: the new (query_tree, fef_location) pair
addLocationNode(location_str, query_tree, fef_location) ==
    LET unchanged == [tree |-> query_tree, location |-> fef_location]
        pos == find(location_str, ":")
    IN  IF location_str = <<>> THEN unchanged
        ELSE IF pos = 0 THEN unchanged
        ELSE LET view == getZCurveFieldName(SubSeq(location_str, 1, pos - 1))
                 loc == SubSeq(location_str, pos + 1, Len(location_str))
                 locationSpec == ParseLocation(loc)
                 term == ProtonLocationTerm(loc, view, LocationId, LocationWeight)
             IN  IF ~locationSpec.ok THEN unchanged
                 ELSE IF locationSpec.rankOnDistance
                      THEN [tree |-> inject(query_tree, term),
                            location |-> [attribute |-> view,
                                          x |-> locationSpec.x,
                                          y |-> locationSpec.y,
                                          xAspect |-> locationSpec.xAspect,
                                          valid |-> TRUE]]
                      ELSE IF locationSpec.pruneOnDistance
                           THEN [tree |-> inject(query_tree, term),
                                 location |-> fef_location]
                           ELSE unchanged

\* empty; no ':' (yet a well-formed spec); a spec that does not parse; rank,
\* prune, both, neither
Locations ==
    {<<>>, <<"R", "100", "10">>, <<"a", ":", "?", "1">>,
     <<"a", ":", "R", "100", "10">>, <<"a", ":", "P", "100", "10">>,
     <<"a", ":", "B", "10", "1">>, <<"a", ":", "N", "100", "10">>}

(* -------------------------- rewriting passes --------------------------- *)
\* SameElementModifier: prefixes the field of the terms below a same-element
\* group with the group's field
RECURSIVE PrefixView(_, _)
PrefixView(n, prefix) ==
    IF IsLeaf(n) THEN [n EXCEPT !.view = prefix \o <<".">> \o n.view]
    ELSE [n EXCEPT !.ch = [i \in 1..Len(n.ch) |-> PrefixView(n.ch[i], prefix)]]
RECURSIVE SameElementModifier(_)
SameElementModifier(n) ==
    IF n.t = "SameElement"
    THEN [n EXCEPT !.ch = [i \in 1..Len(n.ch) |-> PrefixView(n.ch[i], n.view)]]
    ELSE [n EXCEPT !.ch = [i \in 1..Len(n.ch) |-> SameElementModifier(n.ch[i])]]

\* UnpackingIteratorsOptimizer::optimize: the unpacking strategy of each term
UnpackMode(has_white_list, split, delay) ==
    IF split THEN "split"
    ELSE IF delay /\ ~has_white_list THEN "lazy" ELSE "eager"
RECURSIVE UnpackingIteratorsOptimizer(_, _, _, _)
UnpackingIteratorsOptimizer(n, has_white_list, split, delay) ==
    IF IsLeaf(n) THEN [n EXCEPT !.unpack = UnpackMode(has_white_list, split, delay)]
    ELSE [n EXCEPT !.ch = [i \in 1..Len(n.ch) |->
              UnpackingIteratorsOptimizer(n.ch[i], has_white_list, split, delay)]]

\* ResolveViewVisitor: binds each term to its resolved view
RECURSIVE ResolveViewVisitor(_)
ResolveViewVisitor(n) ==
    IF IsLeaf(n) THEN [n EXCEPT !.resolved = TRUE]
    ELSE [n EXCEPT !.ch = [i \in 1..Len(n.ch) |-> ResolveViewVisitor(n.ch[i])]]

(* ----------------------------- buildTree ------------------------------- *)
\* Query::buildTree as a function of the Query's fields and the arguments:
\* the return value, the new _query_tree and _location, and the passes run.
BuildTreeSkipsFailure(stack, location_str, split, delay, wl, old_location) ==
    LET created == CreateTree(stack)
        se == SameElementModifier(created)
        al == addLocationNode(location_str, se, old_location)
        up == UnpackingIteratorsOptimizer(al.tree, wl, split, delay)
        rv == ResolveViewVisitor(up)
    IN  [ret |-> created # NullNode, tree |-> rv, location |-> al.location,
         passes |-> <<"create", "sameElement", "location", "unpacking", "resolve">>,
         created |-> created, before_location |-> se, after_location |-> al.tree,
         after_unpacking |-> up]

\* as buildTree, but a location that has no ':' or does not parse fails the
\* request
BuildTreeRejectsBadLocation(stack, location_str, split, delay, wl, old_location) ==
    LET created == CreateTree(stack)
        pos == find(location_str, ":")
        bad == /\ location_str # <<>>
               /\ \/ pos = 0
                  \/ ~ParseLocation(SubSeq(location_str, pos + 1, Len(location_str))).ok
    IN  IF created # NullNode /\ ~bad
        THEN LET se == SameElementModifier(created)
                 al == addLocationNode(location_str, se, old_location)
                 up == UnpackingIteratorsOptimizer(al.tree, wl, split, delay)
                 rv == ResolveViewVisitor(up)
             IN  [ret |-> TRUE, tree |-> rv, location |-> al.location,
                  passes |-> <<"create", "sameElement", "location", "unpacking",
                               "resolve">>,
                  created |-> created, before_location |-> se,
                  after_location |-> al.tree, after_unpacking |-> up]
        ELSE [ret |-> FALSE, tree |-> NullNode, location |-> old_location,
              passes |-> <<"create">>,
              created |-> NullNode, before_location |-> NullNode,
              after_location |-> NullNode, after_unpacking |-> NullNode]

\* as buildTree, but the location is injected after the other passes
BuildTreeInjectsLast(stack, location_str, split, delay, wl, old_location) ==
    LET created == CreateTree(stack)
    IN  IF created # NullNode
        THEN LET se == SameElementModifier(created)
                 up == UnpackingIteratorsOptimizer(se, wl, split, delay)
                 rv == ResolveViewVisitor(up)
                 al == addLocationNode(location_str, rv, old_location)
             IN  [ret |-> TRUE, tree |-> al.tree, location |-> al.location,
                  passes |-> <<"create", "sameElement", "unpacking", "resolve",
                               "location">>,
                  created |-> created, before_location |-> se,
                  after_location |-> se,
                  after_unpacking |-> up]
        ELSE [ret |-> FALSE, tree |-> NullNode, location |-> old_location,
              passes |-> <<"create">>,
              created |-> NullNode, before_location |-> NullNode,
              after_location |-> NullNode, after_unpacking |-> NullNode]

buildTree(stack, location_str, split, delay, wl, old_location) ==
    LET created == CreateTree(stack)
    IN  IF created # NullNode
        THEN LET se == SameElementModifier(created)
                 al == addLocationNode(location_str, se, old_location)
                 up == UnpackingIteratorsOptimizer(al.tree, wl, split, delay)
                 rv == ResolveViewVisitor(up)
             IN  [ret |-> TRUE, tree |-> rv, location |-> al.location,
                  passes |-> <<"create", "sameElement", "location", "unpacking",
                               "resolve">>,
                  created |-> created, before_location |-> se,
                  after_location |-> al.tree, after_unpacking |-> up]
        ELSE [ret |-> FALSE, tree |-> NullNode, location |-> old_location,
              passes |-> <<"create">>,
              created |-> NullNode, before_location |-> NullNode,
              after_location |-> NullNode, after_unpacking |-> NullNode]

(* ---------------------------- extractTerms ----------------------------- *)
\* TermDataExtractor::extractTerms: the terms of the tree, in pre-order
RECURSIVE extractTerms(_)
RECURSIVE extractAll(_)
extractTerms(n) == IF IsLeaf(n) THEN <<n>> ELSE extractAll(n.ch)
extractAll(chs) ==
    IF chs = <<>> THEN <<>> ELSE extractTerms(Head(chs)) \o extractAll(Tail(chs))

(* ------------------------ match-data reservation ----------------------- *)
\* MatchDataReserveVisitor: every term, in pre-order, allocates the next
\* handle of the layout; the layout lists the term ids in allocation order.
RECURSIVE Reserve(_, _)
RECURSIVE ReserveAll(_, _)
\* as Reserve, but a location term gets no slot
ReserveSkipsLocation(n, layout) ==
    IF n.t = "Location" THEN [node |-> n, layout |-> layout]
    ELSE IF IsLeaf(n)
    THEN [node |-> [n EXCEPT !.handle = Len(layout) + 1],
          layout |-> Append(layout, n.id)]
    ELSE LET r == ReserveAll(n.ch, layout)
         IN  [node |-> [n EXCEPT !.ch = r.nodes], layout |-> r.layout]

Reserve(n, layout) ==
    IF IsLeaf(n)
    THEN [node |-> [n EXCEPT !.handle = Len(layout) + 1],
          layout |-> Append(layout, n.id)]
    ELSE LET r == ReserveAll(n.ch, layout)
         IN  [node |-> [n EXCEPT !.ch = r.nodes], layout |-> r.layout]
ReserveAll(chs, layout) ==
    IF chs = <<>> THEN [nodes |-> <<>>, layout |-> layout]
    ELSE LET h == Reserve(Head(chs), layout)
             r == ReserveAll(Tail(chs), h.layout)
         IN  [nodes |-> <<h.node>> \o r.nodes, layout |-> r.layout]

(* ----------------------------- blueprints ------------------------------ *)
\* search::queryeval::Blueprint: limit is the doc-id limit, gf the global
\* filter a leaf has been given ("none" before any), provider whether the
\* blueprint is a WhiteListProvider, fetched whether fetchPostings reached it,
\* handle the match-data slot a leaf writes to (0: none).
Blueprint(type, id, children, limit, provider) ==
    [t |-> type, id |-> id, ch |-> children, limit |-> limit, frozen |-> FALSE,
     gf |-> "none", provider |-> provider, fetched |-> FALSE, handle |-> 0]

NullBlueprint == Blueprint("Null", 0, <<>>, 0, FALSE)
AndBlueprint == Blueprint("And", 0, <<>>, 0, FALSE)
\* the white-list blueprints a caller can supply
WhiteListId == 99
WhiteLists == {Blueprint("WhiteList", WhiteListId, <<>>, 0, p) : p \in BOOLEAN}

\* IRequestContext / ISearchContext::getDocIdLimit
DocIdLimit == 50

\* BlueprintBuilder::build: terms become leaves, intermediates keep their
\* type and the order of their children.
RECURSIVE BlueprintBuilder(_)
BlueprintBuilder(n) ==
    IF IsLeaf(n)
    THEN [Blueprint("Leaf", n.id, <<>>, DocIdLimit, FALSE) EXCEPT !.handle = n.handle]
    ELSE Blueprint(n.t, 0, [i \in 1..Len(n.ch) |-> BlueprintBuilder(n.ch[i])],
                   DocIdLimit, FALSE)

\* IntermediateBlueprint::addChild / removeChild / insertChild / getChild
\* (child positions count from 0, as in the code)
addChild(bp, child) == [bp EXCEPT !.ch = Append(bp.ch, child)]
getChild(bp, n) == bp.ch[n + 1]
removeChild(bp, n) ==
    [child |-> bp.ch[n + 1],
     rest |-> [bp EXCEPT !.ch = SubSeq(bp.ch, 1, n) \o SubSeq(bp.ch, n + 2, Len(bp.ch))]]
insertChild(bp, n, child) ==
    [bp EXCEPT !.ch = SubSeq(bp.ch, 1, n) \o <<child>> \o SubSeq(bp.ch, n + 1, Len(bp.ch))]

\* Blueprint::setDocIdLimit: the limit of the node and of all below it
RECURSIVE setDocIdLimit(_, _)
setDocIdLimit(bp, limit) ==
    [bp EXCEPT !.limit = limit,
               !.ch = [i \in 1..Len(bp.ch) |-> setDocIdLimit(bp.ch[i], limit)]]

asRankOrAndNot(bp) == bp.t \in {"Rank", "AndNot"}

\* lastConsequtiveRankOrAndNot: the node is named by its depth on the path of
\* first children, 1 being the root; 0 is nullptr.
RECURSIVE lastConsequtiveRankOrAndNot(_)
LastChainStopsAtRoot(bp) == IF asRankOrAndNot(bp) THEN 1 ELSE 0

lastConsequtiveRankOrAndNot(bp) ==
    IF ~asRankOrAndNot(bp) THEN 0
    ELSE 1 + lastConsequtiveRankOrAndNot(getChild(bp, 0))

\* lines 175-178 on the node rankOrAndNot points to
ChainSurgery(node, whiteListBlueprint) ==
    LET r == removeChild(node, 0)
        andBlueprint == addChild(addChild(AndBlueprint, r.child), whiteListBlueprint)
    IN  insertChild(r.rest, 0, andBlueprint)

\* the tree with the surgery done on the node at depth k of the first-child path
RECURSIVE MergeAtDepth(_, _, _)
MergeAtDepth(bp, k, whiteListBlueprint) ==
    IF k = 1 THEN ChainSurgery(bp, whiteListBlueprint)
    ELSE [bp EXCEPT !.ch[1] = MergeAtDepth(bp.ch[1], k - 1, whiteListBlueprint)]

\* Query::reserveHandles, lines 171-187: the blueprint after white listing
MergeWrapsRoot(blueprint, whiteListBlueprint) ==
    setDocIdLimit(addChild(addChild(AndBlueprint, blueprint), whiteListBlueprint),
                  DocIdLimit)

MergeWhiteListFirst(blueprint, whiteListBlueprint) ==
    LET rankOrAndNot == lastConsequtiveRankOrAndNot(blueprint)
        merged == IF rankOrAndNot # 0
                  THEN MergeAtDepth(blueprint, rankOrAndNot, whiteListBlueprint)
                  ELSE addChild(addChild(AndBlueprint, whiteListBlueprint), blueprint)
    IN  setDocIdLimit(merged, DocIdLimit)

\* as MergeWhiteList, but the doc-id limit is not set on the merged tree
MergeWithoutLimit(blueprint, whiteListBlueprint) ==
    LET rankOrAndNot == lastConsequtiveRankOrAndNot(blueprint)
    IN  IF rankOrAndNot # 0
        THEN MergeAtDepth(blueprint, rankOrAndNot, whiteListBlueprint)
        ELSE addChild(addChild(AndBlueprint, blueprint), whiteListBlueprint)

MergeWhiteList(blueprint, whiteListBlueprint) ==
    LET rankOrAndNot == lastConsequtiveRankOrAndNot(blueprint)
        merged == IF rankOrAndNot # 0
                  THEN MergeAtDepth(blueprint, rankOrAndNot, whiteListBlueprint)
                  ELSE addChild(addChild(AndBlueprint, blueprint), whiteListBlueprint)
    IN  setDocIdLimit(merged, DocIdLimit)

(* ------------------------------ optimizer ------------------------------ *)
\* the term whose blueprint asks for a global filter
WantId == 11

\* hit estimate of a leaf, from its search context; a leaf that wanted the
\* global filter estimates anew once it has one
LeafEstimate(bp) ==
    IF bp.t = "WhiteList" THEN 40
    ELSE IF bp.id = WantId
         THEN (CASE bp.gf = "none" -> 7 [] bp.gf = "all" -> 3 [] OTHER -> 2)
         ELSE ((bp.id * 3) % 7) + 1

Min(a, b) == IF a < b THEN a ELSE b

\* HitEstimate of a blueprint (And: min, Or: union bound, AndNot and Rank:
\* first child)
RECURSIVE Estimate(_)
RECURSIVE MinEstimate(_)
RECURSIVE SumEstimate(_)
Estimate(bp) ==
    IF bp.ch = <<>> THEN (IF bp.t \in {"Leaf", "WhiteList"} THEN LeafEstimate(bp) ELSE 0)
    ELSE CASE bp.t = "And" -> MinEstimate(bp.ch)
           [] bp.t = "Or" -> SumEstimate(bp.ch)
           [] OTHER -> Estimate(bp.ch[1])
MinEstimate(chs) ==
    IF Len(chs) = 1 THEN Estimate(chs[1])
    ELSE Min(Estimate(Head(chs)), MinEstimate(Tail(chs)))
SumEstimate(chs) ==
    IF chs = <<>> THEN 0 ELSE Estimate(Head(chs)) + SumEstimate(Tail(chs))

\* stable insertion sort of children by estimate
Before(a, b, desc) == IF desc THEN Estimate(a) > Estimate(b) ELSE Estimate(a) < Estimate(b)
RECURSIVE Insert(_, _, _)
Insert(x, s, desc) ==
    IF s = <<>> THEN <<x>>
    ELSE IF Before(x, Head(s), desc) THEN <<x>> \o s
         ELSE <<Head(s)>> \o Insert(x, Tail(s), desc)
RECURSIVE SortFirst(_, _, _)
SortFirst(s, n, desc) ==
    IF n = 0 THEN <<>> ELSE Insert(s[n], SortFirst(s, n - 1, desc), desc)
SortChildren(s, desc) == SortFirst(s, Len(s), desc)

\* Blueprint::optimize: children first, then the node orders its own
\* children (And: most selective first, Or: largest first; Rank and AndNot
\* keep theirs)
RECURSIVE OptimizeBlueprint(_)
OptimizeRotates(bp) ==
    LET chs == [i \in 1..Len(bp.ch) |-> OptimizeBlueprint(bp.ch[i])]
    IN  IF bp.t \in {"And", "Or"} /\ Len(chs) > 1
        THEN [bp EXCEPT !.ch = Tail(chs) \o <<Head(chs)>>]
        ELSE [bp EXCEPT !.ch = chs]

OptimizeBlueprint(bp) ==
    LET chs == [i \in 1..Len(bp.ch) |-> OptimizeBlueprint(bp.ch[i])]
    IN  CASE bp.t = "And" -> [bp EXCEPT !.ch = SortChildren(chs, FALSE)]
          [] bp.t = "Or" -> [bp EXCEPT !.ch = SortChildren(chs, TRUE)]
          [] OTHER -> [bp EXCEPT !.ch = chs]

\* Blueprint::getState().want_global_filter()
RECURSIVE want_global_filter(_)
want_global_filter(bp) ==
    IF bp.t = "Leaf" THEN bp.id = WantId
    ELSE \E i \in 1..Len(bp.ch) : want_global_filter(bp.ch[i])

\* Blueprint::set_global_filter: handed to every blueprint that wants it
RECURSIVE set_global_filter(_, _)
set_global_filter(bp, filter) ==
    IF bp.t = "Leaf" THEN (IF bp.id = WantId THEN [bp EXCEPT !.gf = filter] ELSE bp)
    ELSE [bp EXCEPT !.ch = [i \in 1..Len(bp.ch) |-> set_global_filter(bp.ch[i], filter)]]

\* Query::optimize: white_list is what the provider hands out ("all" when
\* there is no provider); log lists the steps taken, in order.
OptimizeUntilSettled(blueprint, white_list) ==
    LET first == OptimizeBlueprint(blueprint)
    IN  IF want_global_filter(first)
        THEN LET attached == set_global_filter(first, white_list)
                 second == OptimizeBlueprint(attached)
             IN  [bp |-> OptimizeBlueprint(second), filter |-> white_list,
                  log |-> <<"optimize", "set_global_filter", "optimize", "optimize">>]
        ELSE [bp |-> first, filter |-> "none", log |-> <<"optimize">>]

OptimizeAlwaysAttaches(blueprint, white_list) ==
    LET first == OptimizeBlueprint(blueprint)
        attached == set_global_filter(first, white_list)
    IN  [bp |-> OptimizeBlueprint(attached), filter |-> white_list,
         log |-> <<"optimize", "set_global_filter", "optimize">>]

QueryOptimize(blueprint, white_list) ==
    LET first == OptimizeBlueprint(blueprint)
    IN  IF want_global_filter(first)
        THEN LET attached == set_global_filter(first, white_list)
             IN  [bp |-> OptimizeBlueprint(attached), filter |-> white_list,
                  log |-> <<"optimize", "set_global_filter", "optimize">>]
        ELSE [bp |-> first, filter |-> "none", log |-> <<"optimize">>]

(* ------------------ fetchPostings, freeze, createSearch ---------------- *)
\* Blueprint::fetchPostings: every blueprint of the tree fetches its postings
RECURSIVE fetchPostings(_)
fetchPostings(bp) ==
    [bp EXCEPT !.fetched = TRUE,
               !.ch = [i \in 1..Len(bp.ch) |-> fetchPostings(bp.ch[i])]]

\* Blueprint::freeze: the whole tree becomes immutable
RECURSIVE freeze(_)
freeze(bp) ==
    [bp EXCEPT !.frozen = TRUE,
               !.ch = [i \in 1..Len(bp.ch) |-> freeze(bp.ch[i])]]

\* the contract checks of Blueprint: the structure may change only before
\* freeze, iterators may be made only after it
MutationAlwaysAllowed(bp) == TRUE

mutationAllowed(bp) == ~bp.frozen

CreateSearchAlwaysAllowed(bp) == TRUE

createSearchAllowed(bp) == bp.frozen

\* Blueprint::createSearch: a new iterator tree of the shape of the blueprint
\* tree, every iterator bound to the match data md
RECURSIVE createSearch(_, _, _)
createSearch(bp, md, strict) ==
    [t |-> bp.t, id |-> bp.id, md |-> md, strict |-> strict,
     ch |-> [i \in 1..Len(bp.ch) |-> createSearch(bp.ch[i], md, strict /\ i = 1)]]

\* Query::createSearch: the iterator tree returned and the _blueprint left
QueryCreateSearchSharesBuffer(bp, md) ==
    [search |-> createSearch(bp, 1, TRUE), blueprint |-> bp]

QueryCreateSearch(bp, md) ==
    [search |-> createSearch(bp, md, TRUE), blueprint |-> bp]

\* the (split_unpacking_iterators, delay_unpacking_iterators) settings tried
UnpackFlags == {<<TRUE, FALSE>>, <<FALSE, TRUE>>}

(* ------------------------------- state --------------------------------- *)
VARIABLES
    query_tree,           \* Query::_query_tree (NullNode: empty)
    location,             \* Query::_location
    whiteListBlueprint,   \* Query::_whiteListBlueprint (NullBlueprint: empty)
    white_list_provider,  \* Query::_white_list_provider: "null", or where its
                          \* pointee lives: "query", "tree", "freed"
    blueprint,            \* Query::_blueprint (NullBlueprint: empty)
    mdl,                  \* the MatchDataLayout handed to reserveHandles
    crashed,              \* the process died on a null dereference
    calls,                \* calls made so far
    lastCall,             \* name of the latest call
    prevCall,             \* name of the call before it
    optCalls,             \* optimize calls that returned
    built,                \* arguments and outcome of the latest buildTree
    merge,                \* blueprints of the latest reserveHandles
    opt,                  \* blueprints and steps of the latest optimize
    optPasses,            \* optimizer passes run on this Query
    budget,               \* calls the client makes on this Query
    buildBudget,          \* buildTree calls the client makes on this Query
    builds,               \* buildTree calls made, and how many of them
                          \* assigned the fields of _location
    searches              \* per match-data buffer: the createSearch call on it

queryVars == <<query_tree, location, whiteListBlueprint, white_list_provider,
               blueprint, mdl, crashed, calls, lastCall, prevCall, optCalls, built,
               merge, opt, optPasses, budget, buildBudget, builds, searches>>

\* RetiringUpgrader and the node repository it works on
VARIABLES
    nodes,                \* NodeRepository: hostname -> node ("absent": not listed)
    now,                  \* nodeRepository.clock().instant()
    target,               \* the OsVersionTarget stored for the node type
    retirements,          \* instants at which a host was retired, in order
    thrown                \* what the latest upgradeTo threw ("none": returned)

upgraderVars == <<nodes, now, target, retirements, thrown>>

\* no node repository is looked at
NoUpgrader ==
    /\ nodes = <<>>
    /\ now = 0
    /\ target = <<>>
    /\ retirements = <<>>
    /\ thrown = "none"

\* JobControl over a MockDb, and the maintainers of JobControlTest
VARIABLES
    startedJobs,             \* JobControl: job name -> maintainer (NoMaintainer: none)
    inactiveJobs,            \* MockDb.inactiveJobs
    maintenanceInvocations,  \* MockMaintainer.maintenanceInvocations, per maintainer
    lastSetActive,           \* per job: <<b>> after setActive(job, b), <<>> before any
    skippedRuns              \* scheduled runs of the mock maintainer that returned
                             \* without maintaining

jobVars == <<startedJobs, inactiveJobs, maintenanceInvocations, lastSetActive,
             skippedRuns>>

\* no JobControl is looked at
NoJobControl ==
    /\ startedJobs = <<>>
    /\ inactiveJobs = {}
    /\ maintenanceInvocations = <<>>
    /\ lastSetActive = <<>>
    /\ skippedRuns = 0

\* RemoteSessionRepo of one tenant, the curator it follows and the test that
\* drives them
VARIABLES
    zk,                   \* curator: session id -> data of its state node
                          \* ("absent": no session path)
    sessions,             \* RemoteSessionRepo: session id -> status ("null": none)
    pc,                   \* per session id: how far the test has come with it
    badApplication,       \* the applications path holds an entry with invalid data
    escaped               \* an exception of the repo reached the caller

sessionVars == <<zk, sessions, pc, badApplication, escaped>>

\* no session repo is looked at
NoSessionRepo ==
    /\ zk = <<>>
    /\ sessions = <<>>
    /\ pc = <<>>
    /\ badApplication = FALSE
    /\ escaped = FALSE

otherVars == <<upgraderVars, jobVars, sessionVars>>
OthersIdle == NoUpgrader /\ NoJobControl /\ NoSessionRepo
exceptUpgraderVars == <<queryVars, jobVars, sessionVars>>
exceptJobVars == <<queryVars, upgraderVars, sessionVars>>
exceptSessionVars == <<queryVars, upgraderVars, jobVars>>

vars == <<queryVars, otherVars>>

NoBuild ==
    [ret |-> FALSE, location |-> NoLocation, passes |-> <<>>,
     created |-> NullNode, before_location |-> NullNode, after_location |-> NullNode,
     after_unpacking |-> NullNode, stack |-> <<>>, location_str |-> <<>>,
     old_location |-> NoLocation, has_white_list |-> FALSE]
NoMerge == [original |-> NullBlueprint, whiteList |-> NullBlueprint,
            merged |-> NullBlueprint]
NoOpt == [before |-> NullBlueprint, after |-> NullBlueprint, log |-> <<>>,
          filter |-> "none", wanted |-> FALSE]

\* the match-data buffers and the createSearch call made on each: not made
\* ("idle"), reading the blueprint ("running") or returned ("done"), with the
\* _blueprint the call found, the buffers whose calls were running when it
\* began and the iterator tree it returned
Buffers == 1..MaxBuffers
NoSearch == [t |-> "Null", id |-> 0, md |-> 0, strict |-> FALSE, ch |-> <<>>]
IdleSearch == [state |-> "idle", blueprint |-> NullBlueprint, during |-> {},
               search |-> NoSearch]
NoSearchRunning == \A md \in Buffers : searches[md].state # "running"

NewQuery ==
    /\ query_tree = NullNode
    /\ location = NoLocation
    /\ whiteListBlueprint = NullBlueprint
    /\ white_list_provider = "null"
    /\ blueprint = NullBlueprint
    /\ mdl = <<>>
    /\ crashed = FALSE
    /\ calls = 0
    /\ lastCall = "new"
    /\ prevCall = "new"
    /\ optCalls = 0
    /\ built = NoBuild
    /\ builds = [calls |-> 0, wrote |-> 0]
    /\ merge = NoMerge
    /\ opt = NoOpt
    /\ optPasses = 0
    /\ searches = [md \in Buffers |-> IdleSearch]

\* the matching code builds the tree of a Query once
Init == NewQuery /\ budget = MaxCalls /\ buildBudget = 1 /\ OthersIdle

\* the stages of one Query run one after the other on the calling thread
CanCall == ~crashed /\ calls < budget /\ NoSearchRunning

Crash(name) ==
    /\ crashed' = TRUE
    /\ calls' = calls + 1
    /\ lastCall' = name
    /\ prevCall' = lastCall
    /\ UNCHANGED <<otherVars, budget, buildBudget, builds, searches, optCalls, query_tree, location, whiteListBlueprint, white_list_provider,
                   blueprint, mdl, built, merge, opt, optPasses>>

(* ------------------------------ actions -------------------------------- *)
\* Query::buildTree, the first stage of the pipeline, run once on a Query
BuildTree(stack, location_str, split, delay) ==
    /\ CanCall
    /\ builds.calls < buildBudget
    /\ LET r == buildTree(stack, location_str, split, delay,
                          whiteListBlueprint # NullBlueprint, location)
           \* the same call on an untouched descriptor: valid iff the call
           \* assigns the descriptor's fields
           fresh == buildTree(stack, location_str, split, delay,
                              whiteListBlueprint # NullBlueprint, NoLocation)
       IN  /\ query_tree' = r.tree
           /\ builds' = [calls |-> builds.calls + 1,
                         wrote |-> builds.wrote + (IF fresh.location.valid
                                                   THEN 1 ELSE 0)]
           /\ location' = r.location
           /\ built' = [ret |-> r.ret, location |-> r.location,
                        passes |-> r.passes, created |-> r.created,
                        before_location |-> r.before_location,
                        after_location |-> r.after_location,
                        after_unpacking |-> r.after_unpacking,
                        stack |-> stack, location_str |-> location_str,
                        old_location |-> location,
                        has_white_list |-> whiteListBlueprint # NullBlueprint]
    /\ calls' = calls + 1
    /\ lastCall' = "buildTree"
    /\ prevCall' = lastCall
    /\ UNCHANGED <<otherVars, budget, buildBudget, searches, optCalls, whiteListBlueprint, white_list_provider, blueprint, mdl, crashed,
                   merge, opt, optPasses>>

\* Query::setWhiteListBlueprint
SetWhiteListBlueprint(wl) ==
    /\ CanCall
    /\ whiteListBlueprint' = wl
    /\ white_list_provider' = IF wl.provider THEN "query" ELSE "null"
    /\ calls' = calls + 1
    /\ lastCall' = "setWhiteListBlueprint"
    /\ prevCall' = lastCall
    /\ UNCHANGED <<otherVars, budget, buildBudget, builds, searches, optCalls, query_tree, location, blueprint, mdl, crashed, built, merge,
                   opt, optPasses>>

\* Query::reserveHandles
ReserveHandles ==
    /\ CanCall
    /\ IF query_tree = NullNode
       THEN Crash("reserveHandles")
       ELSE LET r == Reserve(query_tree, mdl)
                original == BlueprintBuilder(r.node)
                merged == IF whiteListBlueprint # NullBlueprint
                          THEN MergeWhiteList(original, whiteListBlueprint)
                          ELSE original
            IN  /\ query_tree' = r.node
                /\ mdl' = r.layout
                /\ blueprint' = merged
                /\ merge' = [original |-> original, whiteList |-> whiteListBlueprint,
                             merged |-> merged]
                /\ whiteListBlueprint' = NullBlueprint
                \* the old blueprint tree is destroyed, the white list moves
                /\ white_list_provider' =
                       CASE white_list_provider = "query" -> "tree"
                         [] white_list_provider = "tree" -> "freed"
                         [] OTHER -> white_list_provider
                /\ calls' = calls + 1
                /\ lastCall' = "reserveHandles"
                /\ prevCall' = lastCall
                /\ UNCHANGED <<otherVars, budget, buildBudget, builds, searches, optCalls, location, crashed, built, opt, optPasses>>

\* what get_white_list_filter() can yield through the provider pointer; a
\* pointer to a destroyed blueprint may yield anything
ProviderOutcomes ==
    CASE white_list_provider = "null" -> {"all"}
      [] white_list_provider = "freed" -> {"all", "wl", "crash"}
      [] OTHER -> {"wl"}

RECURSIVE CountPasses(_)
CountPasses(log) ==
    IF log = <<>> THEN 0
    ELSE (IF Head(log) = "optimize" THEN 1 ELSE 0) + CountPasses(Tail(log))

\* Query::optimize
Optimize ==
    /\ CanCall
    /\ IF blueprint = NullBlueprint \/ ~mutationAllowed(blueprint)
       THEN Crash("optimize")
       ELSE \E white_list \in ProviderOutcomes :
              LET r == QueryOptimize(blueprint, white_list)
              IN  IF white_list = "crash" /\ r.filter # "none"
                  THEN Crash("optimize")
                  ELSE /\ blueprint' = r.bp
                       /\ opt' = [before |-> blueprint, after |-> r.bp, log |-> r.log,
                                  filter |-> r.filter,
                                  wanted |-> want_global_filter(OptimizeBlueprint(blueprint))]
                       /\ optPasses' = optPasses + CountPasses(r.log)
                       /\ calls' = calls + 1
                       /\ lastCall' = "optimize"
                       /\ prevCall' = lastCall
                       /\ optCalls' = optCalls + 1
                       /\ UNCHANGED <<otherVars, budget, buildBudget, builds, searches, query_tree, location, whiteListBlueprint,
                                      white_list_provider, mdl, crashed, built, merge>>

Next ==
    \/ \E stack \in Stacks, location_str \in Locations, flags \in UnpackFlags :
          BuildTree(stack, location_str, flags[1], flags[2])
    \/ \E wl \in WhiteLists : SetWhiteListBlueprint(wl)
    \/ ReserveHandles
    \/ Optimize

Spec == Init /\ [][Next]_vars

\* as FetchPostings, but the call is ignored on a blueprint that is frozen or
\* has its postings already
FetchPostingsInOrderOnly ==
    /\ CanCall
    /\ IF blueprint = NullBlueprint
       THEN Crash("fetchPostings")
       ELSE /\ blueprint' = IF blueprint.frozen \/ blueprint.fetched
                            THEN blueprint ELSE fetchPostings(blueprint)
            /\ calls' = calls + 1
            /\ lastCall' = "fetchPostings"
            /\ prevCall' = lastCall
            /\ UNCHANGED <<otherVars, budget, buildBudget, builds, searches, optCalls, query_tree, location,
                           whiteListBlueprint, white_list_provider, mdl, crashed,
                           built, merge, opt, optPasses>>

\* Query::fetchPostings
FetchPostings ==
    /\ CanCall
    /\ IF blueprint = NullBlueprint
       THEN Crash("fetchPostings")
       ELSE /\ blueprint' = fetchPostings(blueprint)
            /\ calls' = calls + 1
            /\ lastCall' = "fetchPostings"
            /\ prevCall' = lastCall
            /\ UNCHANGED <<otherVars, budget, buildBudget, builds, searches, optCalls, query_tree, location,
                           whiteListBlueprint, white_list_provider, mdl, crashed,
                           built, merge, opt, optPasses>>

\* Query::freeze
Freeze ==
    /\ CanCall
    /\ IF blueprint = NullBlueprint
       THEN Crash("freeze")
       ELSE /\ blueprint' = freeze(blueprint)
            /\ calls' = calls + 1
            /\ lastCall' = "freeze"
            /\ prevCall' = lastCall
            /\ UNCHANGED <<otherVars, budget, buildBudget, builds, searches, optCalls, query_tree, location,
                           whiteListBlueprint, white_list_provider, mdl, crashed,
                           built, merge, opt, optPasses>>

\* Query::createSearch on the buffer md, as one thread runs it: the call
\* enters, and fails at once on a missing or unfrozen blueprint ...
CreateSearchBegin(md) ==
    /\ ~crashed
    /\ searches[md].state = "idle"
    /\ lastCall' = "createSearch"
    /\ prevCall' = lastCall
    /\ IF blueprint = NullBlueprint \/ ~createSearchAllowed(blueprint)
       THEN /\ crashed' = TRUE
            /\ UNCHANGED searches
       ELSE /\ searches' = [searches EXCEPT ![md] =
                               [state |-> "running", blueprint |-> blueprint,
                                during |-> {o \in Buffers :
                                               searches[o].state = "running"},
                                search |-> NoSearch]]
            /\ UNCHANGED crashed
    /\ UNCHANGED <<otherVars, budget, buildBudget, builds, calls, optCalls, query_tree, location, whiteListBlueprint,
                   white_list_provider, blueprint, mdl, built, merge, opt, optPasses>>

\* ... and returns its iterator tree
CreateSearchEnd(md) ==
    /\ ~crashed
    /\ searches[md].state = "running"
    /\ LET r == QueryCreateSearch(blueprint, md)
       IN  /\ searches' = [searches EXCEPT ![md].state = "done",
                                           ![md].search = r.search]
           /\ blueprint' = r.blueprint
    /\ UNCHANGED <<otherVars, budget, buildBudget, builds, calls, lastCall, prevCall, optCalls, query_tree, location,
                   whiteListBlueprint, white_list_provider, mdl, crashed, built, merge,
                   opt, optPasses>>

\* the whole pipeline on one Query, followed on a few short expressions
PipelineStacks == {Serialize(tr) : tr \in Trees(1)}
\* always with a location: builds without one are followed under Spec and RebuildSpec
PipelineLocations == {<<"a", ":", "R", "100", "10">>}

PipelineInit == NewQuery /\ budget = MaxPipelineCalls /\ buildBudget = 1 /\ OthersIdle

PipelineNext ==
    \/ \E stack \in PipelineStacks, location_str \in PipelineLocations :
          BuildTree(stack, location_str, TRUE, FALSE)
    \/ \E wl \in WhiteLists : SetWhiteListBlueprint(wl)
    \/ ReserveHandles
    \/ Optimize
    \/ FetchPostings
    \/ Freeze
    \/ \E md \in Buffers : CreateSearchBegin(md)
    \/ \E md \in Buffers : CreateSearchEnd(md)

PipelineSpec == PipelineInit /\ [][PipelineNext]_vars

(* ------------------ buildTree called again on one Query ---------------- *)
\* a client that calls buildTree on the same Query more than once
RebuildStacks == PipelineStacks \cup MalformedStacks
RebuildInit ==
    NewQuery /\ budget = MaxBuilds /\ buildBudget = MaxBuilds /\ OthersIdle
RebuildNext ==
    \E stack \in RebuildStacks, location_str \in Locations :
        BuildTree(stack, location_str, TRUE, FALSE)
RebuildSpec == RebuildInit /\ [][RebuildNext]_vars

(* ========================== RetiringUpgrader =========================== *)
\* hosts h1..h3 and a tenant node c1 that runs on h1
Hostnames == {"h1", "h2", "h3", "c1"}
NoHost == "none"
Epoch == 0
UpgradeBudget == 4
TargetVersion == 2

\* a node: os is its current OS version (0: unset), wanted its wanted one
RepoNode(type, parent, state, os) ==
    [type |-> type, parent |-> parent, state |-> state, os |-> os, wanted |-> 0,
     wantToRetire |-> FALSE, wantToDeprovision |-> FALSE]

\* nodeRepository.list().nodeType(target.nodeType()).state(active)
activeNodes(ns, tg) ==
    {h \in DOMAIN ns : ns[h].state = "active" /\ ns[h].type = tg.nodeType}

\* as firstByIncreasingOsVersion, but the highest version comes first
FirstByDecreasingOsVersion(ns, tg) ==
    LET stale == {h \in activeNodes(ns, tg) :
                     ns[h].os # tg.version /\ ~ns[h].wantToDeprovision}
    IN  {h \in stale : \A o \in stale : ns[h].os >= ns[o].os}

\* as firstByIncreasingOsVersion, but nodes that are deprovisioning stay in
FirstIgnoringDeprovisioning(ns, tg) ==
    LET stale == {h \in activeNodes(ns, tg) : ns[h].os # tg.version}
    IN  {h \in stale : \A o \in stale : ns[h].os <= ns[o].os}

\* activeNodes.not().onOsVersion(version).not().deprovisioning()
\*            .byIncreasingOsVersion().first(1): the nodes that may come first
firstByIncreasingOsVersion(ns, tg) ==
    LET stale == {h \in activeNodes(ns, tg) :
                     ns[h].os # tg.version /\ ~ns[h].wantToDeprovision}
    IN  {h \in stale : \A o \in stale : ns[h].os <= ns[o].os}

\* RetiringUpgrader.retire; gone: the host left the repository before the lock
\* was taken
retire(ns, tg, host, version, at, gone) ==
    IF ns[host].type # "host"
    THEN [nodes |-> ns, target |-> tg, thrown |-> "IllegalArgumentException"]
    ELSE IF gone
    THEN [nodes |-> [ns EXCEPT ![host].state = "absent"], target |-> tg,
          thrown |-> "none"]
    ELSE [nodes |-> [h \in DOMAIN ns |->
                        IF h = host
                        THEN [ns[h] EXCEPT !.wantToRetire = TRUE,
                                           !.wantToDeprovision = TRUE,
                                           !.wanted = version]
                        ELSE IF ns[h].parent = host /\ ns[h].state # "absent"
                        THEN [ns[h] EXCEPT !.wantToRetire = TRUE]
                        ELSE ns[h]],
          target |-> [tg EXCEPT !.lastRetiredAt = <<at>>],
          thrown |-> "none"]

\* as upgradeTo, but the time budget is not looked at
UpgradeToIgnoresBudget(ns, tg, at, host, gone) ==
    LET unchanged == [nodes |-> ns, target |-> tg, thrown |-> "none"]
        active == activeNodes(ns, tg)
    IN  IF Cardinality(active) = 0 THEN unchanged
        ELSE IF tg.upgradeBudget = <<>>
        THEN [unchanged EXCEPT !.thrown = "IllegalStateException"]
        ELSE IF host = NoHost THEN unchanged
        ELSE retire(ns, tg, host, tg.version, at, gone)

\* RetiringUpgrader.upgradeTo; host: the node first(1) yields (NoHost: none)
upgradeTo(ns, tg, at, host, gone) ==
    LET unchanged == [nodes |-> ns, target |-> tg, thrown |-> "none"]
        active == activeNodes(ns, tg)
    IN  IF Cardinality(active) = 0 THEN unchanged
        ELSE IF tg.upgradeBudget = <<>>
        THEN [unchanged EXCEPT !.thrown = "IllegalStateException"]
        ELSE LET nodeBudget == tg.upgradeBudget[1] \div Cardinality(active)
                 retiredAt == IF tg.lastRetiredAt = <<>> THEN Epoch
                              ELSE tg.lastRetiredAt[1]
             IN  IF at < retiredAt + nodeBudget THEN unchanged
                 ELSE IF host = NoHost THEN unchanged
                 ELSE retire(ns, tg, host, tg.version, at, gone)

\* the repository the upgrader starts on: two active hosts on a stale version
\* (one with no version reported yet when unset), a third host not yet active,
\* and a tenant node
UpgraderInit ==
    /\ \E unset \in BOOLEAN :
          nodes = [h \in Hostnames |->
                      CASE h = "h1" -> RepoNode("host", NoHost, "active",
                                                IF unset THEN 0 ELSE 1)
                        [] h = "h2" -> RepoNode("host", NoHost, "active", 1)
                        [] h = "h3" -> RepoNode("host", NoHost, "ready", 1)
                        [] OTHER -> RepoNode("tenant", "h1", "active", 1)]
    /\ now = Epoch
    /\ \E nodeType \in {"host", "tenant"},
          upgradeBudget \in {<<>>, <<UpgradeBudget>>} :
          target = [version |-> TargetVersion, nodeType |-> nodeType,
                    upgradeBudget |-> upgradeBudget, lastRetiredAt |-> <<>>]
    /\ retirements = <<>>
    /\ thrown = "none"
    /\ NewQuery /\ budget = 0 /\ buildBudget = 0
    /\ NoJobControl
    /\ NoSessionRepo

\* the OS upgrade maintainer calls upgradeTo with the stored target
UpgradeTo(host, gone) ==
    /\ host \in (IF firstByIncreasingOsVersion(nodes, target) = {}
                 THEN {NoHost} ELSE firstByIncreasingOsVersion(nodes, target))
    /\ LET r == upgradeTo(nodes, target, now, host, gone)
       IN  /\ nodes' = r.nodes
           /\ target' = r.target
           /\ thrown' = r.thrown
           /\ retirements' =
                 IF \E h \in Hostnames : /\ r.nodes[h].wantToDeprovision
                                         /\ ~nodes[h].wantToDeprovision
                 THEN Append(retirements, now) ELSE retirements
    /\ UNCHANGED <<now, exceptUpgraderVars>>

\* time passes
Tick ==
    /\ now < MaxTime
    /\ now' = now + 1
    /\ UNCHANGED <<nodes, target, retirements, thrown, exceptUpgraderVars>>

\* a provisioned host becomes active
Activate(h) ==
    /\ nodes[h].state = "ready"
    /\ nodes' = [nodes EXCEPT ![h].state = "active"]
    /\ UNCHANGED <<now, target, retirements, thrown, exceptUpgraderVars>>

\* a host that is to be deprovisioned leaves the active state
Park(h) ==
    /\ nodes[h].state = "active"
    /\ nodes[h].wantToDeprovision
    /\ nodes' = [nodes EXCEPT ![h].state = "parked"]
    /\ UNCHANGED <<now, target, retirements, thrown, exceptUpgraderVars>>

\* a newer OS version becomes the target of the node type
ChangeTarget(version) ==
    /\ version > target.version
    /\ target' = [target EXCEPT !.version = version]
    /\ UNCHANGED <<nodes, now, retirements, thrown, exceptUpgraderVars>>

UpgraderNext ==
    \/ \E host \in Hostnames \cup {NoHost}, gone \in BOOLEAN : UpgradeTo(host, gone)
    \/ \E version \in {TargetVersion + 1} : ChangeTarget(version)
    \/ Tick
    \/ \E h \in Hostnames : Activate(h)
    \/ \E h \in Hostnames : Park(h)

UpgraderSpec == UpgraderInit /\ [][UpgraderNext]_vars

(* ======================= JobControl, Maintainer ======================== *)
JobNames == {"Job1", "Job2", "MockMaintainer"}
Maintainers == {"maintainer1", "maintainer2", "mockMaintainer"}
NoMaintainer == "none"

\* as readInactiveJobs, but the stored set is not read
ReadInactiveJobsEmpty(db) == {j \in db : FALSE}

\* MockDb.readInactiveJobs: a copy of the stored set
readInactiveJobs(db) == {j \in db : TRUE}

\* as writeInactiveJobs, but the stored set is not cleared first
WriteInactiveJobsWithoutClear(db, jobSet) == db \cup jobSet

\* MockDb.writeInactiveJobs: clear, then addAll
writeInactiveJobs(db, jobSet) == (db \ db) \cup jobSet

\* as maintain, but counting two invocations
MaintainCountsTwice(invocations) == invocations + 2

\* MockMaintainer.maintain
maintain(invocations) == invocations + 1

\* JobControl.jobs: the names of the started jobs
jobs(startedMap) == {j \in DOMAIN startedMap : startedMap[j] # NoMaintainer}

\* JobControl.isActive: the job is not among the inactive jobs of the db
isActive(db, job) == job \notin readInactiveJobs(db)

\* JobControl.setActive: reads the inactive jobs, adds or removes the job and
\* writes the set back
setActive(db, job, active) ==
    LET inactive == readInactiveJobs(db)
    IN  writeInactiveJobs(db, IF active THEN inactive \ {job}
                              ELSE inactive \cup {job})

\* Maintainer.lockAndMaintain on maintainer m
lockAndMaintain(invocations, m) ==
    [invocations EXCEPT ![m] = maintain(invocations[m])]

\* new JobControl(new MockDb()); the maintainers exist but none has started
JobInit ==
    /\ startedJobs = [j \in JobNames |-> NoMaintainer]
    /\ inactiveJobs = {}
    /\ maintenanceInvocations = [m \in Maintainers |-> 0]
    /\ lastSetActive = [j \in JobNames |-> <<>>]
    /\ skippedRuns = 0
    /\ NewQuery /\ budget = 0 /\ buildBudget = 0
    /\ NoUpgrader
    /\ NoSessionRepo

\* jobControl.started(job, maintainer)
Started(job, m) ==
    /\ startedJobs' = [startedJobs EXCEPT ![job] = m]
    /\ UNCHANGED <<inactiveJobs, maintenanceInvocations, lastSetActive, skippedRuns,
                   exceptJobVars>>

\* new MockMaintainer(jobControl): the Maintainer constructor registers the
\* maintainer under its class name
NewMockMaintainer ==
    /\ startedJobs["MockMaintainer"] = NoMaintainer
    /\ startedJobs' = [startedJobs EXCEPT !["MockMaintainer"] = "mockMaintainer"]
    /\ UNCHANGED <<inactiveJobs, maintenanceInvocations, lastSetActive, skippedRuns,
                   exceptJobVars>>

\* jobControl.setActive(job, active)
SetActive(job, active) ==
    /\ inactiveJobs' = setActive(inactiveJobs, job, active)
    /\ lastSetActive' = [lastSetActive EXCEPT ![job] = <<active>>]
    /\ UNCHANGED <<startedJobs, maintenanceInvocations, skippedRuns, exceptJobVars>>

\* jobControl.run(job): the job is run on demand
JobControlRun(job) ==
    /\ job \in jobs(startedJobs)
    /\ maintenanceInvocations[startedJobs[job]] < MaxInvocations
    /\ maintenanceInvocations' =
          lockAndMaintain(maintenanceInvocations, startedJobs[job])
    /\ UNCHANGED <<startedJobs, inactiveJobs, lastSetActive, skippedRuns,
                   exceptJobVars>>

\* mockMaintainer.run(): the scheduled run of the maintainer that was
\* constructed with the job control
MaintainerRun ==
    /\ startedJobs["MockMaintainer"] = "mockMaintainer"
    /\ maintenanceInvocations["mockMaintainer"] < MaxInvocations
    /\ skippedRuns < MaxInvocations
    /\ IF isActive(inactiveJobs, "MockMaintainer")
       THEN /\ maintenanceInvocations' =
                  lockAndMaintain(maintenanceInvocations, "mockMaintainer")
            /\ UNCHANGED skippedRuns
       ELSE /\ skippedRuns' = skippedRuns + 1
            /\ UNCHANGED maintenanceInvocations
    /\ UNCHANGED <<startedJobs, inactiveJobs, lastSetActive, exceptJobVars>>

JobNext ==
    \/ \E job \in {"Job1", "Job2"}, m \in {"maintainer1", "maintainer2"} :
          Started(job, m)
    \/ NewMockMaintainer
    \/ \E job \in JobNames, active \in BOOLEAN : SetActive(job, active)
    \/ \E job \in JobNames : JobControlRun(job)
    \/ MaintainerRun

JobSpec == JobInit /\ [][JobNext]_vars

(* ========================== RemoteSessionRepo ========================== *)
\* The waits of the test (waitFor, awaitCompletion) are modelled as blocking
\* until their condition holds; their time limits are not modelled.
SessionIds == 1..MaxSessions
NoSessionPath == "absent"
NullSession == "null"

\* RemoteSessionRepo.getSession(id).getStatus(), NullSession for no session
getSession(repo, id) == repo[id]

\* RemoteSessionRepo.getSessions()
getSessions(repo) == {id \in DOMAIN repo : repo[id] # NullSession}

\* as sessionsChanged, but an application entry with invalid data stops the
\* sessions from loading
SessionsChangedFailsOnBadData(repo, store, bad) ==
    IF bad /\ \E id \in DOMAIN repo : repo[id] = NullSession /\ store[id] # NoSessionPath
    THEN [sessions |-> repo, escaped |-> TRUE]
    ELSE [sessions |-> [id \in DOMAIN repo |->
                           IF store[id] = NoSessionPath THEN NullSession
                           ELSE IF repo[id] = NullSession THEN store[id]
                           ELSE repo[id]],
          escaped |-> FALSE]

\* RemoteSessionRepo, on a change of the children of the sessions path: loads
\* the sessions that are new, with the status their state node holds, and
\* drops the ones whose path is gone; a failure to read the application of a
\* session is handled and does not stop the load
sessionsChanged(repo, store, bad) ==
    [sessions |-> [id \in DOMAIN repo |->
                      IF store[id] = NoSessionPath THEN NullSession
                      ELSE IF repo[id] = NullSession THEN store[id]
                      ELSE repo[id]],
     escaped |-> FALSE]

\* the status the test waits for at each point of testSessionStateChange
Awaited(at) ==
    CASE at = "created" -> "NEW"
      [] at = "wrotePREPARE" -> "PREPARE"
      [] at = "wroteACTIVATE" -> "ACTIVATE"
      [] OTHER -> NullSession

\* setupFacade: a tenant with an empty sessions path
SessionInit ==
    /\ zk = [id \in SessionIds |-> NoSessionPath]
    /\ sessions = [id \in SessionIds |-> NullSession]
    /\ pc = [id \in SessionIds |-> "start"]
    /\ badApplication \in BOOLEAN
    /\ escaped = FALSE
    /\ NewQuery /\ budget = 0 /\ buildBudget = 0
    /\ NoUpgrader
    /\ NoJobControl

\* createSession(sessionId, wait): createNewSession writes the session with
\* status NEW
CreateSession(id, wait) ==
    /\ pc[id] = "start"
    /\ zk' = [zk EXCEPT ![id] = "NEW"]
    /\ pc' = [pc EXCEPT ![id] = IF wait THEN "awaiting" ELSE "created"]
    /\ UNCHANGED <<sessions, badApplication, escaped, exceptSessionVars>>

\* ... and with wait, awaitCompletion returns once the repo has the session
AwaitCompletion(id) ==
    /\ pc[id] = "awaiting"
    /\ getSession(sessions, id) # NullSession
    /\ pc' = [pc EXCEPT ![id] = "created"]
    /\ UNCHANGED <<zk, sessions, badApplication, escaped, exceptSessionVars>>

\* assertSessionStatus: waitFor sees the session with the awaited status
AssertSessionStatus(id) ==
    /\ Awaited(pc[id]) # NullSession
    /\ getSession(sessions, id) = Awaited(pc[id])
    /\ pc' = [pc EXCEPT ![id] = CASE pc[id] = "created" -> "seenNEW"
                                  [] pc[id] = "wrotePREPARE" -> "seenPREPARE"
                                  [] OTHER -> "seenACTIVATE"]
    /\ UNCHANGED <<zk, sessions, badApplication, escaped, exceptSessionVars>>

\* as AssertStatusChange, but the test does not wait for the status written
\* before
AssertStatusChangeUnseen(id, status) ==
    /\ \/ pc[id] \in {"created", "seenNEW"} /\ status = "PREPARE"
       \/ pc[id] \in {"wrotePREPARE", "seenPREPARE"} /\ status = "ACTIVATE"
    /\ zk' = [zk EXCEPT ![id] = status]
    /\ pc' = [pc EXCEPT ![id] = IF status = "PREPARE" THEN "wrotePREPARE"
                                ELSE "wroteACTIVATE"]
    /\ UNCHANGED <<sessions, badApplication, escaped, exceptSessionVars>>

\* assertStatusChange: the status is written to the state node of the session
\* (PREPARE after NEW was seen, ACTIVATE after PREPARE was seen)
AssertStatusChange(id, status) ==
    /\ \/ pc[id] = "seenNEW" /\ status = "PREPARE"
       \/ pc[id] = "seenPREPARE" /\ status = "ACTIVATE"
    /\ zk' = [zk EXCEPT ![id] = status]
    /\ pc' = [pc EXCEPT ![id] = IF status = "PREPARE" THEN "wrotePREPARE"
                                ELSE "wroteACTIVATE"]
    /\ UNCHANGED <<sessions, badApplication, escaped, exceptSessionVars>>

\* curator.delete(session)
DeleteSession(id) ==
    /\ pc[id] = "seenACTIVATE"
    /\ zk' = [zk EXCEPT ![id] = NoSessionPath]
    /\ pc' = [pc EXCEPT ![id] = "deleted"]
    /\ UNCHANGED <<sessions, badApplication, escaped, exceptSessionVars>>

\* assertSessionRemoved: waitFor sees getSession return null
AssertSessionRemoved(id) ==
    /\ pc[id] = "deleted"
    /\ getSession(sessions, id) = NullSession
    /\ pc' = [pc EXCEPT ![id] = "done"]
    /\ UNCHANGED <<zk, sessions, badApplication, escaped, exceptSessionVars>>

\* the repo is told that the children of the sessions path changed
SessionsChanged ==
    /\ getSessions(sessions) # {id \in SessionIds : zk[id] # NoSessionPath}
    /\ LET r == sessionsChanged(sessions, zk, badApplication)
       IN  /\ sessions' = r.sessions
           /\ escaped' = (escaped \/ r.escaped)
    /\ UNCHANGED <<zk, pc, badApplication, exceptSessionVars>>

\* the repo's watcher of a session is told that the state node changed
StateChanged(id) ==
    /\ sessions[id] # NullSession
    /\ zk[id] # NoSessionPath
    /\ sessions[id] # zk[id]
    /\ sessions' = [sessions EXCEPT ![id] = zk[id]]
    /\ UNCHANGED <<zk, pc, badApplication, escaped, exceptSessionVars>>

SessionNext ==
    \/ \E id \in SessionIds, wait \in BOOLEAN : CreateSession(id, wait)
    \/ \E id \in SessionIds : AwaitCompletion(id)
    \/ \E id \in SessionIds : AssertSessionStatus(id)
    \/ \E id \in SessionIds, status \in {"PREPARE", "ACTIVATE"} :
          AssertStatusChange(id, status)
    \/ \E id \in SessionIds : DeleteSession(id)
    \/ \E id \in SessionIds : AssertSessionRemoved(id)
    \/ SessionsChanged
    \/ \E id \in SessionIds : StateChanged(id)

\* the curator delivers every change to the repo's listeners, on its own
\* thread; the test may stop anywhere
SessionSpec ==
    /\ SessionInit
    /\ [][SessionNext]_vars
    /\ WF_vars(SessionsChanged)
    /\ \A id \in SessionIds : WF_vars(StateChanged(id))

(* ====================== white-list merge (C1-C3) ======================= *)
\* structure of a blueprint tree: types, ids and child order
RECURSIVE Shape(_)
Shape(bp) == [t |-> bp.t, id |-> bp.id,
              ch |-> [i \in 1..Len(bp.ch) |-> Shape(bp.ch[i])]]
ShapeOf(type, id, children) == [t |-> type, id |-> id, ch |-> children]

\* a white list was merged by the latest reserveHandles
Merged == merge.whiteList # NullBlueprint /\ merge.merged # NullBlueprint

\* number of consecutive Rank/AndNot nodes from the root along first children
RECURSIVE ChainLength(_)
ChainLength(s) ==
    IF s.t \in {"Rank", "AndNot"} /\ Len(s.ch) > 0 THEN 1 + ChainLength(s.ch[1]) ELSE 0

\* the node k steps down the first-child path (k = 0: the root)
RECURSIVE Down(_, _)
Down(s, k) == IF k = 0 THEN s ELSE Down(s.ch[1], k - 1)

\* the same positions along the first-child path hold the same type and, but
\* for child 0, the same children, down to depth k
SameButFirstChildren(a, b, k) ==
    \A j \in 0..(k - 1) :
        LET x == Down(a, j)
            y == Down(b, j)
        IN  /\ x.t = y.t /\ x.id = y.id
            /\ Len(x.ch) = Len(y.ch)
            /\ \A i \in 2..Len(x.ch) : x.ch[i] = y.ch[i]

\* C1: when the built root starts a chain of k >= 1 consecutive Rank/AndNot
\* nodes along first children, the merge replaces child 0 of the deepest chain
\* node by And(old child 0, whiteList) and changes nothing else.
C1_ChainMerge ==
    (Merged /\ asRankOrAndNot(merge.original)) =>
        LET o == Shape(merge.original)
            m == Shape(merge.merged)
            k == ChainLength(o)
        IN  /\ SameButFirstChildren(o, m, k)
            /\ Down(m, k) = ShapeOf("And", 0, <<Down(o, k), Shape(merge.whiteList)>>)

\* Rank(Rank(T1, T2), T3) has become Rank(Rank(And(T1, WL), T2), T3)
C1_Witness ==
    /\ Merged
    /\ Shape(merge.original) =
         ShapeOf("Rank", 0, <<ShapeOf("Rank", 0, <<ShapeOf("Leaf", 1, <<>>),
                                                   ShapeOf("Leaf", 11, <<>>)>>),
                              ShapeOf("Leaf", 21, <<>>)>>)
    /\ Shape(blueprint) =
         ShapeOf("Rank", 0,
                 <<ShapeOf("Rank", 0,
                           <<ShapeOf("And", 0, <<ShapeOf("Leaf", 1, <<>>),
                                                 ShapeOf("WhiteList", WhiteListId, <<>>)>>),
                             ShapeOf("Leaf", 11, <<>>)>>),
                   ShapeOf("Leaf", 21, <<>>)>>)

\* C2: when the built root is neither Rank nor AndNot, the new root is
\* And(original root, whiteList), in this order.
C2_TopLevelWrap ==
    (Merged /\ ~asRankOrAndNot(merge.original)) =>
        LET m == Shape(merge.merged)
        IN  /\ m.t = "And"
            /\ m.ch = <<Shape(merge.original), Shape(merge.whiteList)>>

C2_Witness ==
    /\ Merged
    /\ merge.original.t = "Or"
    /\ blueprint.t = "And"
    /\ Len(blueprint.ch) = 2
    /\ blueprint.ch[2].t = "WhiteList"

\* the And nodes of a tree that hold the white list as a child
RECURSIVE WhiteListAnds(_)
WhiteListAnds(s) ==
    (IF s.t = "And" /\ \E i \in 1..Len(s.ch) : s.ch[i].t = "WhiteList" THEN {s} ELSE {})
    \cup UNION {WhiteListAnds(s.ch[i]) : i \in 1..Len(s.ch)}

\* the subtree holds a Rank/AndNot node with a child at position 1 or later
RECURSIVE HoldsSecondaryChild(_)
HoldsSecondaryChild(s) ==
    \/ s.t \in {"Rank", "AndNot"} /\ Len(s.ch) > 1
    \/ \E i \in 1..Len(s.ch) : HoldsSecondaryChild(s.ch[i])

\* the subtree holds the white list
RECURSIVE HoldsWhiteList(_)
HoldsWhiteList(s) ==
    s.t = "WhiteList" \/ \E i \in 1..Len(s.ch) : HoldsWhiteList(s.ch[i])

\* C3 as stated: no child at position >= 1 of any Rank/AndNot node lies below
\* the And node that holds the white list, and the matching part of the tree
\* lies below it.
C3_Original ==
    Merged =>
        LET o == Shape(merge.original)
            m == Shape(merge.merged)
            k == ChainLength(o)
        IN  /\ \A a \in WhiteListAnds(m) : ~HoldsSecondaryChild(a)
            /\ WhiteListAnds(m) = {Down(m, k)}
            /\ Down(m, k).ch[1] = Down(o, k)

\* C3 amended: the children at position >= 1 of the Rank/AndNot nodes of the
\* root chain are outside the one And node that holds the white list, and the
\* whole subtree that was child 0 of the deepest chain node (the whole root
\* when there is no chain) is child 0 of that And node.
C3_ChainChildrenUnfiltered ==
    Merged =>
        LET o == Shape(merge.original)
            m == Shape(merge.merged)
            k == ChainLength(o)
        IN  /\ \A j \in 0..(k - 1) : \A i \in 2..Len(Down(m, j).ch) :
                   /\ ~HoldsWhiteList(Down(m, j).ch[i])
                   /\ Down(m, j).ch[i] = Down(o, j).ch[i]
            /\ WhiteListAnds(m) = {Down(m, k)}
            /\ Down(m, k).ch[1] = Down(o, k)

\* a Rank root with two ranking-only children whose matching child is an And
C3_Witness ==
    /\ Merged
    /\ ChainLength(Shape(merge.original)) = 1
    /\ Len(merge.original.ch) = 3
    /\ merge.original.ch[1].t = "And"
    /\ blueprint.ch[1].t = "And"
    /\ blueprint.ch[1].ch[2].t = "WhiteList"

(* ========================== inject (C4-C6) ============================= *)
\* the location string makes addLocationNode inject a term
Injects(location_str) ==
    LET pos == find(location_str, ":")
        spec == ParseLocation(SubSeq(location_str, pos + 1, Len(location_str)))
    IN  pos # 0 /\ spec.ok /\ (spec.rankOnDistance \/ spec.pruneOnDistance)

\* the latest buildTree injected a location term: before_location is the
\* tree given to inject, after_location the tree it returned
Injected == built.ret /\ Injects(built.location_str)

\* the location terms of a tree
RECURSIVE LocationTerms(_)
LocationTerms(n) ==
    (IF n.t = "Location" THEN {n} ELSE {})
    \cup UNION {LocationTerms(n.ch[i]) : i \in 1..Len(n.ch)}

\* what injecting term into n must give, told without the list operations of
\* the code: follow first children through Rank/AndNot, then extend an And or
\* wrap anything else
RECURSIVE Injection(_, _)
Injection(n, term) ==
    CASE n.t \in {"Rank", "AndNot"} -> [n EXCEPT !.ch[1] = Injection(n.ch[1], term)]
      [] n.t = "And" -> [n EXCEPT !.ch = n.ch \o <<term>>]
      [] OTHER -> Intermediate("And", <<n, term>>)

\* C4: inject on a Rank or AndNot root replaces only the first child, by the
\* injection into it; the root keeps its type and every other child keeps its
\* position and subtree, at every depth of nested Rank/AndNot first children.
C4_InjectDescends ==
    (Injected /\ built.before_location.t \in {"Rank", "AndNot"}) =>
        LET b == built.before_location
            a == built.after_location
        IN  /\ a.t = b.t
            /\ Len(a.ch) = Len(b.ch)
            /\ \A i \in 2..Len(b.ch) : a.ch[i] = b.ch[i]
            /\ \E term \in LocationTerms(a) : a.ch[1] = Injection(b.ch[1], term)

\* AndNot(Rank(T, ..), ..): two levels of descent
C4_Witness ==
    /\ Injected
    /\ built.before_location.t = "AndNot"
    /\ built.before_location.ch[1].t = "Rank"
    /\ built.after_location.ch[1].t = "Rank"
    /\ built.after_location.ch[1].ch[1].t = "And"
    /\ built.after_location.ch[1].ch[1].ch[2].t = "Location"

\* C5: inject on an And root appends the term as the last child of that And:
\* same root, earlier children in order, one child more.
C5_InjectAppendsToAnd ==
    (Injected /\ built.before_location.t = "And") =>
        LET b == built.before_location
            a == built.after_location
        IN  /\ [a EXCEPT !.ch = b.ch] = b
            /\ Len(a.ch) = Len(b.ch) + 1
            /\ SubSeq(a.ch, 1, Len(b.ch)) = b.ch
            /\ a.ch[Len(a.ch)].t = "Location"

C5_Witness ==
    /\ Injected
    /\ built.before_location.t = "And"
    /\ Len(built.before_location.ch) = 2
    /\ Len(built.after_location.ch) = 3
    /\ built.after_location.ch[3].t = "Location"

\* C6: inject on a root that is none of And, Rank, AndNot returns a new And
\* whose children are the old root and the term, in this order.
C6_InjectWraps ==
    (Injected /\ built.before_location.t \notin {"And", "Rank", "AndNot"}) =>
        LET b == built.before_location
            a == built.after_location
        IN  /\ a.t = "And"
            /\ Len(a.ch) = 2
            /\ a.ch[1] = b
            /\ a.ch[2].t = "Location"
            /\ a = Intermediate("And", a.ch)

C6_Witness ==
    /\ Injected
    /\ built.before_location.t = "Or"
    /\ built.after_location.t = "And"
    /\ built.after_location.ch[1] = built.before_location
    /\ built.after_location.ch[2].t = "Location"

(* ===================== optimize protocol (C7-C9) ======================= *)
\* an optimize call has returned
Optimized == opt.log # <<>>

\* C7 as stated: one call runs one pass when the tree does not want a global
\* filter after the first pass and two when it does, and one Query never sees
\* more than two passes in its life.
C7_Original ==
    /\ Optimized => CountPasses(opt.log) = (IF opt.wanted THEN 2 ELSE 1)
    /\ optPasses <= 2

\* C7 amended: one call runs one pass when the tree does not want a global
\* filter after the first pass and two when it does, never a third; over the
\* life of a Query that makes at most two passes for each optimize call.
C7_TwoPassesPerCall ==
    /\ Optimized => CountPasses(opt.log) = (IF opt.wanted THEN 2 ELSE 1)
    /\ optPasses <= 2 * optCalls
    /\ optPasses >= optCalls

\* a call made two passes and the tree still wants a global filter
C7_Witness ==
    /\ lastCall = "optimize"
    /\ Optimized
    /\ opt.wanted
    /\ want_global_filter(blueprint)
    /\ CountPasses(opt.log) = 2
    /\ optPasses = 2

\* the leaves of the tree that want a global filter have this one
RECURSIVE FiltersAre(_, _)
FiltersAre(bp, filter) ==
    /\ (bp.t = "Leaf" /\ bp.id = WantId) => bp.gf = filter
    /\ \A i \in 1..Len(bp.ch) : FiltersAre(bp.ch[i], filter)

\* the global filters of the leaves of a tree, in any order
RECURSIVE Filters(_)
Filters(bp) ==
    (IF bp.t = "Leaf" THEN {<<bp.id, bp.gf>>} ELSE {})
    \cup UNION {Filters(bp.ch[i]) : i \in 1..Len(bp.ch)}

\* C8: optimize creates and attaches a global filter exactly when the tree
\* wants one after the first pass; the attachment comes after the first pass
\* and before the second, and there is no second pass without it.
C8_FilterIffWanted ==
    Optimized =>
        /\ opt.wanted =>
              /\ opt.log = <<"optimize", "set_global_filter", "optimize">>
              /\ opt.filter # "none"
              /\ FiltersAre(opt.after, opt.filter)
        /\ ~opt.wanted =>
              /\ opt.log = <<"optimize">>
              /\ opt.filter = "none"
              /\ Filters(opt.after) = Filters(opt.before)

\* a filter was attached between two passes
C8_Witness ==
    /\ lastCall = "optimize"
    /\ Optimized
    /\ opt.wanted
    /\ opt.log[2] = "set_global_filter"
    /\ ~FiltersAre(opt.before, opt.filter)
    /\ FiltersAre(blueprint, opt.filter)

\* C9: a second optimize call right after a first, on a tree with no node
\* that wants a global filter, changes neither structure nor estimate.
C9_OptimizeIdempotent ==
    (lastCall = "optimize" /\ prevCall = "optimize" /\ ~crashed
        /\ ~want_global_filter(opt.before)) =>
        /\ opt.after = opt.before
        /\ Estimate(opt.after) = Estimate(opt.before)

\* the first call did reorder an And, the second left it alone
C9_Witness ==
    /\ lastCall = "optimize"
    /\ prevCall = "optimize"
    /\ ~crashed
    /\ ~want_global_filter(opt.before)
    /\ merge.merged # opt.before
    /\ opt.after = opt.before
    /\ blueprint = opt.after

(* ======================= build failure (C10) =========================== *)
\* C10: when tree creation yields no tree, buildTree returns false having run
\* no later pass; the location descriptor is left as it was and the Query
\* holds no tree.
C10_FailedBuildRunsNothing ==
    (lastCall = "buildTree" /\ CreateTree(built.stack) = NullNode) =>
        /\ built.ret = FALSE
        /\ built.passes = <<"create">>
        /\ location = built.old_location
        /\ location.valid = FALSE
        /\ query_tree = NullNode

\* a stack that ends early was given together with a ranking location
C10_Witness ==
    /\ lastCall = "buildTree"
    /\ built.stack # <<>>
    /\ CreateTree(built.stack) = NullNode
    /\ Injects(built.location_str)
    /\ built.ret = FALSE
    /\ query_tree = NullNode
    /\ ~location.valid

(* ------------------------- C11 - C14: location -------------------------- *)
\* the part of a location string after its first ':' and what it parses to
LocationSpecOf(location_str) ==
    ParseLocation(SubSeq(location_str, find(location_str, ":") + 1, Len(location_str)))

\* the location term addLocationNode must create for a location string
LocationTermOf(location_str) ==
    LET pos == find(location_str, ":")
    IN  [t |-> "Location", id |-> 0 - 1, ch |-> <<>>,
         view |-> SubSeq(location_str, 1, pos - 1) \o <<"_zcurve">>,
         loc |-> SubSeq(location_str, pos + 1, Len(location_str)),
         weight |-> 100, resolved |-> FALSE, unpack |-> "none", handle |-> 0]

NoColon(location_str) == location_str # <<>> /\ find(location_str, ":") = 0
ParseFails(location_str) ==
    find(location_str, ":") # 0 /\ ~LocationSpecOf(location_str).ok
RanksOnDistance(location_str) ==
    /\ find(location_str, ":") # 0
    /\ LocationSpecOf(location_str).ok
    /\ LocationSpecOf(location_str).rankOnDistance
PrunesOnly(location_str) ==
    /\ find(location_str, ":") # 0
    /\ LocationSpecOf(location_str).ok
    /\ ~LocationSpecOf(location_str).rankOnDistance
    /\ LocationSpecOf(location_str).pruneOnDistance

\* the number of location terms of a tree
LocationCount(n) ==
    LET terms == extractTerms(n)
    IN  Cardinality({i \in 1..Len(terms) : terms[i].t = "Location"})

\* C11: a non-empty location string without ':' changes nothing: the tree
\* after the location stage is the tree before it and the descriptor is as it
\* was, invalid.
C11_NoColonChangesNothing ==
    (built.ret /\ NoColon(built.location_str)) =>
        /\ built.after_location = built.before_location
        /\ location = built.old_location
        /\ ~location.valid

\* a string without ':' that would be a ranking spec if it were parsed
C11_Witness ==
    /\ lastCall = "buildTree"
    /\ built.ret
    /\ built.location_str = <<"R", "100", "10">>
    /\ built.after_location = built.before_location
    /\ ~location.valid

\* every leaf of the tree went through the unpacking optimizer and view
\* resolution
LaterPassesRan(n) ==
    LET terms == extractTerms(n)
    IN  \A i \in 1..Len(terms) : terms[i].resolved /\ terms[i].unpack # "none"

\* C12: for every well-formed stream buildTree returns true, whether the
\* location string is empty, lacks ':' or does not parse; when it does not
\* parse no term is injected, the descriptor stays invalid and the unpacking
\* optimizer and view resolution still run.
C12_BadLocationStillBuilds ==
    (built # NoBuild /\ CreateTree(built.stack) # NullNode) =>
        /\ built.ret
        /\ query_tree # NullNode
        /\ built.passes = <<"create", "sameElement", "location", "unpacking", "resolve">>
        /\ LaterPassesRan(query_tree)
        /\ ParseFails(built.location_str) =>
              /\ built.after_location = built.before_location
              /\ LocationCount(query_tree) = 0
              /\ location = built.old_location
              /\ ~location.valid

\* a well-formed stream came with a location that has a ':' and does not parse
C12_Witness ==
    /\ lastCall = "buildTree"
    /\ built.ret
    /\ ParseFails(built.location_str)
    /\ LocationCount(query_tree) = 0
    /\ LaterPassesRan(query_tree)
    /\ ~location.valid

\* C13: when the spec ranks on distance, exactly one location term, with the
\* z-curve view name, id -1 and weight 100, is injected by the injection
\* algorithm, and the descriptor holds the view, the parsed x, y and x-aspect
\* and is valid (x = 100, y = 10 give valid, 100, 10).
C13_RankPopulatesDescriptor ==
    (built.ret /\ RanksOnDistance(built.location_str)) =>
        /\ built.after_location =
               Injection(built.before_location, LocationTermOf(built.location_str))
        /\ LocationCount(built.after_location) = 1
        /\ LocationCount(query_tree) = 1
        /\ location = [attribute |-> LocationTermOf(built.location_str).view,
                       x |-> LocationSpecOf(built.location_str).x,
                       y |-> LocationSpecOf(built.location_str).y,
                       xAspect |-> LocationSpecOf(built.location_str).xAspect,
                       valid |-> TRUE]
        /\ built.location_str = <<"a", ":", "R", "100", "10">> =>
               location.valid /\ location.x = 100 /\ location.y = 10

\* the ranking location of the example, on a tree that inject had to descend
C13_Witness ==
    /\ lastCall = "buildTree"
    /\ built.ret
    /\ built.location_str = <<"a", ":", "R", "100", "10">>
    /\ built.before_location.t = "Rank"
    /\ LocationCount(query_tree) = 1
    /\ location.valid /\ location.x = 100 /\ location.y = 10
    /\ location.attribute = <<"a", "_zcurve">>

\* C14: when the spec only prunes on distance the same location term is
\* injected and the descriptor is left as it was: not valid, no field written.
C14_PruneLeavesDescriptor ==
    (built.ret /\ PrunesOnly(built.location_str)) =>
        /\ built.after_location =
               Injection(built.before_location, LocationTermOf(built.location_str))
        /\ LocationCount(query_tree) = 1
        /\ location = built.old_location
        /\ location = NoLocation

\* a pruning location was injected and the descriptor is still empty
C14_Witness ==
    /\ lastCall = "buildTree"
    /\ built.ret
    /\ built.location_str = <<"a", ":", "P", "100", "10">>
    /\ LocationCount(query_tree) = 1
    /\ LocationCount(built.before_location) = 0
    /\ ~location.valid

(* --------------------------- C15: term count ---------------------------- *)
\* the number of term leaves of the expression a stack carries
StackTerms(stack) == Cardinality({i \in 1..Len(stack) : stack[i].t = "Term"})

\* C15 as first stated: the tree of a well-formed stream has the term leaves
\* of the expression, plus one only if the location ranks on distance.
C15_Original ==
    (built # NoBuild /\ CreateTree(built.stack) # NullNode) =>
        /\ built.ret
        /\ Len(extractTerms(query_tree)) =
               StackTerms(built.stack)
               + (IF RanksOnDistance(built.location_str) THEN 1 ELSE 0)

\* C15: for every well-formed stream buildTree succeeds and the tree has the
\* term leaves of the expression plus one if a location term was injected,
\* which happens when the parsed location ranks on distance or prunes on
\* distance, and plus nothing in every other case.
C15_TermCount ==
    (built # NoBuild /\ CreateTree(built.stack) # NullNode) =>
        /\ built.ret
        /\ Len(extractTerms(query_tree)) =
               StackTerms(built.stack)
               + (IF \/ RanksOnDistance(built.location_str)
                     \/ PrunesOnly(built.location_str)
                  THEN 1 ELSE 0)

\* a location that only prunes added its term to a tree of three terms
C15_Witness ==
    /\ lastCall = "buildTree"
    /\ built.ret
    /\ PrunesOnly(built.location_str)
    /\ StackTerms(built.stack) = 3
    /\ Len(extractTerms(query_tree)) = 4

(* ---------------------------- C16: term ids ----------------------------- *)
\* the ids of the terms of a tree, in pre-order
TermIds(n) == LET terms == extractTerms(n) IN [i \in 1..Len(terms) |-> terms[i].id]
UniqueIds(n) ==
    LET ids == TermIds(n)
    IN  \A i, j \in 1..Len(ids) : ids[i] = ids[j] => i = j

\* the ids of the terms that came with the expression, in pre-order
IsExpressionTerm(n) == n.t = "Term"
ExpressionIds(n) ==
    LET terms == SelectSeq(extractTerms(n), IsExpressionTerm)
    IN  [i \in 1..Len(terms) |-> terms[i].id]

\* the tree after each rewriting pass of the latest buildTree: same-element,
\* location injection, unpacking optimization, view resolution
PassResults ==
    {built.before_location, built.after_location, built.after_unpacking, query_tree}

\* no pass gave a term of the expression another id
IdsStable == \A n \in PassResults : ExpressionIds(n) = ExpressionIds(built.created)

\* C16 as first stated: after every pass the term ids of the tree are unique,
\* the location term with its id -1 included, and no pass changes an id.
C16_Original ==
    built.ret => IdsStable /\ \A n \in PassResults : UniqueIds(n)

\* C16: no rewriting pass changes the id of an existing term, the location
\* term is created with id -1, and the term ids are unique after every pass
\* whenever they are unique in the created tree and none of them is -1.
C16_IdsStableAndUnique ==
    built.ret =>
        /\ IdsStable
        /\ \A n \in PassResults :
               LET terms == extractTerms(n)
               IN  \A i \in 1..Len(terms) :
                       terms[i].t = "Location" => terms[i].id = 0 - 1
        /\ (/\ UniqueIds(built.created)
            /\ LET ids == TermIds(built.created)
               IN  \A i \in 1..Len(ids) : ids[i] # 0 - 1)
           => \A n \in PassResults : UniqueIds(n)

\* a location term with id -1 sits in a tree of three expression terms with
\* ids of their own
C16_Witness ==
    /\ lastCall = "buildTree"
    /\ built.ret
    /\ UniqueIds(built.created)
    /\ Len(TermIds(built.created)) = 3
    /\ LocationCount(query_tree) = 1
    /\ UniqueIds(query_tree)
    /\ \E i \in 1..Len(TermIds(query_tree)) : TermIds(query_tree)[i] = 0 - 1

(* ------------------------- C17: reserved slots -------------------------- *)
\* the slot each term of the tree holds, in pre-order
Handles(n) == LET terms == extractTerms(n) IN [i \in 1..Len(terms) |-> terms[i].handle]

\* every term holds one slot of the layout, no two terms the same one, and the
\* slot carries the term's id
OneSlotEach(n, layout) ==
    LET held == Handles(n)
        ids == TermIds(n)
    IN  /\ \A i \in 1..Len(held) :
              held[i] \in 1..Len(layout) /\ layout[held[i]] = ids[i]
        /\ \A i, j \in 1..Len(held) : held[i] = held[j] => i = j

Rebuilt ==
    IF whiteListBlueprint # NullBlueprint
    THEN MergeWhiteList(BlueprintBuilder(query_tree'), whiteListBlueprint)
    ELSE BlueprintBuilder(query_tree')

C19_CreateSearchNeedsFreeze ==
    /\ (lastCall = "createSearch" /\ ~blueprint.frozen) => crashed
    /\ \A md \in Buffers :
           searches[md].state # "idle" =>
               searches[md].blueprint # NullBlueprint /\ searches[md].blueprint.frozen

\* createSearch was called on a blueprint with its postings fetched and
\* freeze() not yet called
C19_Witness ==
    /\ lastCall = "createSearch"
    /\ prevCall = "fetchPostings"
    /\ blueprint # NullBlueprint
    /\ blueprint.fetched
    /\ ~blueprint.frozen
    /\ crashed
    /\ \A md \in Buffers : searches[md].state = "idle"

\* every iterator of the tree reads and writes the match data md
RECURSIVE BoundTo(_, _)
BoundTo(search, md) ==
    search.md = md /\ \A i \in 1..Len(search.ch) : BoundTo(search.ch[i], md)

\* C20: on a frozen blueprint each createSearch call, whatever other calls
\* with other buffers run at the same time, returns an iterator tree of its
\* own: of the shape of the blueprint tree, bound to the call's buffer only,
\* the results of the other calls untouched; and no step of a call changes the
\* blueprint tree, the query tree or the location descriptor.
C20_CreateSearchIndependent ==
    [][\A md \in Buffers :
          /\ (\/ lastCall' = "createSearch" /\ CreateSearchBegin(md)
              \/ searches'[md].state = "done" /\ CreateSearchEnd(md)) =>
                /\ UNCHANGED <<blueprint, query_tree, location>>
                /\ \A other \in Buffers \ {md} : searches'[other] = searches[other]
          /\ (searches'[md].state = "done" /\ CreateSearchEnd(md)) =>
                /\ blueprint.frozen
                /\ searches'[md].state = "done"
                /\ BoundTo(searches'[md].search, md)
                /\ Shape(searches'[md].search) = Shape(blueprint)]_vars

\* two calls ran at the same time on a frozen tree with a white list and both
\* returned, each with a tree on its own buffer
C20_Witness ==
    /\ blueprint.frozen
    /\ HoldsWhiteList(blueprint)
    /\ searches[1].state = "done"
    /\ searches[2].state = "done"
    /\ searches[2].during = {1}
    /\ BoundTo(searches[1].search, 1)
    /\ BoundTo(searches[2].search, 2)
    /\ searches[1].blueprint = blueprint
    /\ searches[2].blueprint = blueprint

(* --------------------------- C23: doc-id limit -------------------------- *)
\* the And node that the merge made: the one whose last child is the white list
RECURSIVE WhiteListAndOf(_)
WhiteListAndOf(bp) ==
    IF bp.t = "And" /\ Len(bp.ch) = 2 /\ bp.ch[2].t = "WhiteList" THEN bp
    ELSE IF bp.ch = <<>> THEN NullBlueprint
    ELSE WhiteListAndOf(bp.ch[1])

\* every blueprint of the tree carries the limit
RECURSIVE AllLimited(_, _)
AllLimited(bp, limit) ==
    bp.limit = limit /\ \A i \in 1..Len(bp.ch) : AllLimited(bp.ch[i], limit)

\* C23: when reserveHandles has merged a white list, the root, the new And
\* node and the white-list blueprint carry the doc-id limit of the context,
\* after a chain descent as after a top-level wrap.
C23_LimitPropagated ==
    Merged =>
        LET made == WhiteListAndOf(merge.merged)
        IN  /\ made # NullBlueprint
            /\ merge.merged.limit = DocIdLimit
            /\ made.limit = DocIdLimit
            /\ made.ch[2].limit = DocIdLimit
            /\ AllLimited(merge.merged, DocIdLimit)
            /\ merge.whiteList.limit # DocIdLimit

\* the white list went below a chain of two Rank/AndNot nodes and carries the
\* limit there
C23_Witness ==
    /\ lastCall = "reserveHandles"
    /\ Merged
    /\ blueprint = merge.merged
    /\ lastConsequtiveRankOrAndNot(merge.original) = 2
    /\ WhiteListAndOf(blueprint) # blueprint
    /\ WhiteListAndOf(blueprint).ch[2].limit = DocIdLimit
    /\ blueprint.limit = DocIdLimit

(* ---------------------------- C30: pass order --------------------------- *)
\* the slots the leaves of a blueprint tree write to, in pre-order, white
\* lists left out
RECURSIVE LeafHandles(_)
RECURSIVE LeafHandlesOfAll(_)
LeafHandles(bp) ==
    IF bp.t = "Leaf" THEN <<bp.handle>>
    ELSE IF bp.t = "WhiteList" THEN <<>>
    ELSE LeafHandlesOfAll(bp.ch)
LeafHandlesOfAll(chs) ==
    IF chs = <<>> THEN <<>> ELSE LeafHandles(Head(chs)) \o LeafHandlesOfAll(Tail(chs))

\* the marks the passes left on the terms of a tree: all terms carry the
\* given ones
TermsMarked(n, unpacked, resolved, reserved) ==
    LET terms == extractTerms(n)
    IN  \A i \in 1..Len(terms) :
            /\ (terms[i].unpack # "none") = unpacked
            /\ terms[i].resolved = resolved
            /\ (terms[i].handle # 0) = reserved

\* C30: a successful buildTree runs same-element rewrite, location injection,
\* unpacking optimization and view resolution in this order, so an injected
\* location term is unpack-optimized and resolved like every other term;
\* reserveHandles reserves the resolved terms, the location term included,
\* before it builds the blueprint, whose leaves hold the reserved slots, and
\* the white list merged afterwards has no slot.
C30_PassOrder ==
    /\ built.ret =>
          /\ built.passes = <<"create", "sameElement", "location", "unpacking", "resolve">>
          /\ LocationCount(built.before_location) = 0
          /\ LocationCount(built.after_location) =
                 (IF Injects(built.location_str) THEN 1 ELSE 0)
          /\ TermsMarked(built.after_location, FALSE, FALSE, FALSE)
          /\ TermsMarked(built.after_unpacking, TRUE, FALSE, FALSE)
          /\ TermsMarked(query_tree, TRUE, TRUE, merge # NoMerge)
          /\ LocationCount(query_tree) = LocationCount(built.after_location)
    /\ merge # NoMerge =>
          /\ LeafHandles(merge.original) = Handles(query_tree)
          /\ LeafHandles(merge.merged) = Handles(query_tree)
          /\ \A i \in 1..Len(mdl) : mdl[i] # WhiteListId
          /\ Merged => WhiteListAndOf(merge.merged).ch[2].handle = 0

\* a location term was injected, went through the later passes and holds the
\* last of four slots, and a white list was merged without one
C30_Witness ==
    /\ lastCall = "reserveHandles"
    /\ ~crashed
    /\ Injected
    /\ Merged
    /\ LET terms == extractTerms(query_tree)
       IN  /\ Len(terms) = 4
           /\ \E i \in 1..4 : /\ terms[i].t = "Location"
                              /\ terms[i].resolved
                              /\ terms[i].unpack # "none"
                              /\ terms[i].handle # 0
    /\ Len(mdl) = 4
    /\ LeafHandles(blueprint) = Handles(query_tree)

C22_Original ==
    /\ builds.wrote <= 1
    /\ (/\ lastCall = "buildTree"
        /\ built.ret
        /\ \/ built.location_str = <<>>
           \/ NoColon(built.location_str)
           \/ ParseFails(built.location_str)) => ~location.valid

\* C22: buildTree assigns the fields of the descriptor in every call that
\* builds a tree from a location string that ranks on distance, a second such
\* call on the same Query included, and never clears it: a call that builds no
\* tree, or whose location string is empty, does not parse or does not rank,
\* leaves the descriptor as it found it. So the descriptor is absent exactly
\* as long as no call on this Query has populated it.
C22_PopulatedByEachRankingCall ==
    [][(builds'.calls = builds.calls + 1) =>
          LET ranks == built'.ret /\ RanksOnDistance(built'.location_str)
              locationSpec == LocationSpecOf(built'.location_str)
          IN  /\ builds'.wrote = builds.wrote + (IF ranks THEN 1 ELSE 0)
              /\ ranks =>
                    location' = [attribute |-> LocationTermOf(built'.location_str).view,
                                 x |-> locationSpec.x, y |-> locationSpec.y,
                                 xAspect |-> locationSpec.xAspect, valid |-> TRUE]
              /\ ~ranks => location' = location
              /\ location'.valid = (builds'.wrote > 0)]_vars

\* a second buildTree with an empty location string after one that populated
\* the descriptor: the descriptor is still there
C22_Witness ==
    /\ lastCall = "buildTree"
    /\ builds = [calls |-> 2, wrote |-> 1]
    /\ built.ret
    /\ built.location_str = <<>>
    /\ built.old_location.valid
    /\ location.valid
    /\ location = built.old_location

(* ------------------ C29: retirements are spread out -------------------- *)
\* hosts that an upgradeTo step marks for deprovisioning
NewlyRetired == {h \in Hostnames : nodes'[h].wantToDeprovision /\ ~nodes[h].wantToDeprovision}

\* C29: an upgradeTo call retires at most one host, and none while now is
\* before lastRetiredAt (the epoch when there is none) plus the upgrade budget
\* divided by the number of active nodes of the target's type; so a host is
\* retired no sooner after the previous retirement for the target than that
\* per-node budget.
C29_RetirementsSpreadOut ==
    [][(\E host \in Hostnames \cup {NoHost}, gone \in BOOLEAN : UpgradeTo(host, gone)) =>
          LET active == Cardinality({h \in Hostnames :
                                        /\ nodes[h].state = "active"
                                        /\ nodes[h].type = target.nodeType})
              last == IF retirements = <<>> THEN Epoch
                      ELSE retirements[Len(retirements)]
          IN  /\ Cardinality(NewlyRetired) <= 1
              /\ \A h \in NewlyRetired : nodes[h].type = "host"
              /\ (/\ active > 0
                  /\ target.upgradeBudget # <<>>
                  /\ now < last + (target.upgradeBudget[1] \div active)) =>
                     /\ NewlyRetired = {}
                     /\ \A h \in Hostnames : nodes'[h].wantToRetire = nodes[h].wantToRetire
              /\ NewlyRetired # {} =>
                     /\ now - last >= target.upgradeBudget[1] \div active
                     /\ retirements' = Append(retirements, now)
                     /\ target'.lastRetiredAt = <<now>>]_vars

\* two hosts were retired, the second exactly one per-node budget (the budget
\* over the two hosts then active) after the first
C29_Witness ==
    /\ Len(retirements) = 2
    /\ retirements[2] - retirements[1] = UpgradeBudget \div 2
    /\ nodes["h1"].wantToDeprovision
    /\ nodes["h2"].wantToDeprovision
    /\ nodes["c1"].wantToRetire
    /\ nodes["h3"].state = "ready"
    /\ target.lastRetiredAt = <<retirements[2]>>

(* ------------------- C24-C26: JobControl, Maintainer ------------------- *)
\* what the setActive calls made so far say about a job: the value of the
\* last one, active when there was none
ExpectedActive(job) ==
    IF lastSetActive[job] = <<>> THEN TRUE ELSE lastSetActive[job][1]

Created == {id \in SessionIds : pc[id] # "start"}

C31_FlagMatchesMerge ==
    (lastCall = "reserveHandles" /\ ~crashed /\ built.ret) =>
        (built.has_white_list = (merge.whiteList # NullBlueprint))

\* the white list was set after buildTree and before reserveHandles: the
\* optimizer saw none, reserveHandles merged one
C31_SetAfterBuild ==
    /\ lastCall = "reserveHandles"
    /\ prevCall = "setWhiteListBlueprint"
    /\ ~crashed
    /\ built.ret
    /\ ~built.has_white_list
    /\ Merged
    /\ calls = 3

(* ------------------ C32: ownership of the white list ------------------- *)
\* number of white-list blueprints in a blueprint tree
RECURSIVE WhiteListCount(_)
RECURSIVE WhiteListCountAll(_)
WhiteListCount(bp) ==
    (IF bp.t = "WhiteList" THEN 1 ELSE 0) + WhiteListCountAll(bp.ch)
WhiteListCountAll(chs) ==
    IF chs = <<>> THEN 0 ELSE WhiteListCount(Head(chs)) + WhiteListCountAll(Tail(chs))

\* optimize gets as far as asking the white-list provider for its filter
AsksProvider ==
    /\ Optimize
    /\ blueprint # NullBlueprint
    /\ mutationAllowed(blueprint)
    /\ want_global_filter(OptimizeBlueprint(blueprint))
    /\ white_list_provider # "null"

\* C32: a reserveHandles with a white list set leaves the white list exactly
\* once in the blueprint tree and no longer in the Query's own member; and
\* whenever optimize asks the provider for its filter, the blueprint the
\* provider pointer refers to is owned by the Query's blueprint tree.
C32_WhiteListOwnedByTree ==
    [][/\ (ReserveHandles /\ query_tree # NullNode
                          /\ whiteListBlueprint # NullBlueprint) =>
              /\ WhiteListCount(blueprint') = 1
              /\ whiteListBlueprint' = NullBlueprint
       /\ AsksProvider => white_list_provider = "tree"]_vars

\* optimize asked a provider whose blueprint went down with the blueprint
\* tree that a second reserveHandles replaced
C32_AskedDestroyedProvider ==
    /\ lastCall = "optimize"
    /\ white_list_provider = "freed"
    /\ WhiteListCount(blueprint) = 0
    /\ whiteListBlueprint = NullBlueprint
    /\ \/ crashed /\ want_global_filter(OptimizeBlueprint(blueprint))
       \/ ~crashed /\ opt.filter # "none"

(* ------------------ C33: what the global filter is made of ------------- *)
\* C33: the global filter optimize attaches is built from the white-list
\* filter of the provider when a white list was set that is a white-list
\* provider, and from no bitmap (every document eligible) when none was set
\* or the one set is no provider.
C33_FilterFromProvider ==
    (lastCall = "optimize" /\ ~crashed /\ opt.wanted) =>
        opt.filter = (IF white_list_provider # "null" THEN "wl" ELSE "all")

\* a provider was set, yet the filter was built from no bitmap: the provider
\* pointer referred to a destroyed blueprint
C33_ProviderSetFilterFromNothing ==
    /\ lastCall = "optimize"
    /\ ~crashed
    /\ opt.wanted
    /\ white_list_provider = "freed"
    /\ opt.filter = "all"
    /\ FiltersAre(blueprint, "all")

(* ---------------- C34: both flags, neither flag ------------------------ *)
\* the spec of the location string parses
Parses(location_str) ==
    find(location_str, ":") # 0 /\ LocationSpecOf(location_str).ok

\* C34: a spec that parses and asks for neither ranking nor pruning injects
\* no term and leaves the descriptor as it was; one that asks for both is
\* taken as ranking (one term injected, descriptor populated from the spec);
\* no buildTree call injects more than one location term.
C34_BothAndNeither ==
    built.ret =>
        LET locationSpec == LocationSpecOf(built.location_str)
            before == LocationCount(built.before_location)
            after == LocationCount(built.after_location)
        IN  /\ after <= before + 1
            /\ (/\ Parses(built.location_str)
                /\ ~locationSpec.rankOnDistance
                /\ ~locationSpec.pruneOnDistance) =>
                   /\ built.after_location = built.before_location
                   /\ after = before
                   /\ location = built.old_location
            /\ (/\ Parses(built.location_str)
                /\ locationSpec.rankOnDistance
                /\ locationSpec.pruneOnDistance) =>
                   /\ after = before + 1
                   /\ LocationCount(query_tree) = 1
                   /\ location = [attribute |-> LocationTermOf(built.location_str).view,
                                  x |-> locationSpec.x, y |-> locationSpec.y,
                                  xAspect |-> locationSpec.xAspect, valid |-> TRUE]

\* a spec asking for both was built: one location term, descriptor populated
C34_Witness ==
    /\ lastCall = "buildTree"
    /\ built.ret
    /\ built.location_str = <<"a", ":", "B", "10", "1">>
    /\ LocationCount(built.before_location) = 0
    /\ LocationCount(query_tree) = 1
    /\ location.valid
    /\ location.x = 10
    /\ location.y = 1

\* a spec asking for neither was built: no location term, no descriptor
C34_NeitherBuilt ==
    /\ lastCall = "buildTree"
    /\ built.ret
    /\ built.location_str = <<"a", ":", "N", "100", "10">>
    /\ LocationCount(query_tree) = 0
    /\ ~location.valid

(* ------------------ C35: which host is retired, and how ---------------- *)
\* the flags retire sets on a node
RetireFlags(n) ==
    [wantToRetire |-> n.wantToRetire, wantToDeprovision |-> n.wantToDeprovision,
     wanted |-> n.wanted]

\* C35: the host an upgradeTo call retires is an active node of the target's
\* type, not on the target version, not yet deprovisioning, with the lowest
\* OS version among those; the call sets wantToRetire, wantToDeprovision and
\* the wanted version on it and wantToRetire on its children, touches no other
\* node and records now as the retirement time; when the host is gone by the
\* time the lock is held, no flag is set and no retirement time recorded.
C35_LowestStaleHostRetired ==
    [][/\ (\E host \in Hostnames \cup {NoHost}, gone \in BOOLEAN : UpgradeTo(host, gone)) =>
             \A h \in NewlyRetired :
                /\ nodes[h].state = "active"
                /\ nodes[h].type = target.nodeType
                /\ nodes[h].os # target.version
                /\ ~nodes[h].wantToDeprovision
                /\ \A o \in Hostnames :
                      (/\ nodes[o].state = "active"
                       /\ nodes[o].type = target.nodeType
                       /\ nodes[o].os # target.version
                       /\ ~nodes[o].wantToDeprovision) => nodes[h].os <= nodes[o].os
                /\ RetireFlags(nodes'[h]) =
                      [wantToRetire |-> TRUE, wantToDeprovision |-> TRUE,
                       wanted |-> target.version]
                /\ \A o \in Hostnames \ {h} :
                      nodes'[o] = IF nodes[o].parent = h /\ nodes[o].state # "absent"
                                  THEN [nodes[o] EXCEPT !.wantToRetire = TRUE]
                                  ELSE nodes[o]
                /\ target' = [target EXCEPT !.lastRetiredAt = <<now>>]
       /\ \A host \in Hostnames :
             UpgradeTo(host, TRUE) =>
                /\ \A o \in Hostnames : RetireFlags(nodes'[o]) = RetireFlags(nodes[o])
                /\ target' = target
                /\ retirements' = retirements]_vars

\* the host without a reported version was retired before the one on
\* version 1, its child with it
C35_Witness ==
    /\ Len(retirements) = 1
    /\ nodes["h1"].os = 0
    /\ nodes["h2"].os = 1
    /\ RetireFlags(nodes["h1"]) =
          [wantToRetire |-> TRUE, wantToDeprovision |-> TRUE, wanted |-> TargetVersion]
    /\ nodes["c1"].wantToRetire
    /\ ~nodes["c1"].wantToDeprovision
    /\ RetireFlags(nodes["h2"]) =
          [wantToRetire |-> FALSE, wantToDeprovision |-> FALSE, wanted |-> 0]
    /\ target.lastRetiredAt = <<retirements[1]>>

\* a host was gone when the lock was taken: nothing retired, no time recorded
C35_HostGone ==
    /\ \E h \in Hostnames : nodes[h].state = "absent"
    /\ \A h \in Hostnames : ~nodes[h].wantToRetire
    /\ retirements = <<>>
    /\ target.lastRetiredAt = <<>>

(* ------------------ C36: no host is retired twice ---------------------- *)
\* the hosts retire has written with wantToDeprovision
Deprovisioning == {h \in Hostnames : nodes[h].wantToDeprovision}

\* C36: a host that retire has written with wantToDeprovision is not selected
\* by any later upgradeTo call, whatever the target and however the clock
\* moves: a retirement time is recorded only together with a host that was not
\* deprovisioning before, a host keeps the flag once it has it, and there are
\* as many retirements as deprovisioning hosts.
C36_NeverRetiredTwice ==
    [][/\ \A host \in Hostnames, gone \in BOOLEAN :
             UpgradeTo(host, gone) => ~nodes[host].wantToDeprovision
       /\ (target'.lastRetiredAt # target.lastRetiredAt) =>
             /\ Cardinality(NewlyRetired) = 1
             /\ retirements' = Append(retirements, now)
       /\ Deprovisioning \subseteq Deprovisioning'
       /\ Len(retirements') = Cardinality(Deprovisioning')]_vars

\* both stale hosts were retired, one for each target version, and calls made
\* later retired nothing more
C36_Witness ==
    /\ Len(retirements) = 2
    /\ Deprovisioning = {"h1", "h2"}
    /\ nodes["h1"].wanted # nodes["h2"].wanted
    /\ nodes["h1"].state = "active"
    /\ nodes["h2"].state = "active"
    /\ target.version = TargetVersion + 1
    /\ now >= retirements[2] + UpgradeBudget

====
